---- MODULE Spec2Model ----
(***************************************************************************)
(* A model of the dev server core: the module graph (ModuleGraph,          *)
(* ModuleNode), the HMR propagator (updateModules, propagateUpdate,        *)
(* invalidate) and the transform pipeline (transformRequest, doTransform). *)
(***************************************************************************)
EXTENDS Integers, Sequences, FiniteSets, TLC

(***************************************************************************)
(* Bounds of the model.                                                    *)
(***************************************************************************)
\* number of updateModuleInfo calls explored by Spec
MaxCalls == 3
\* longest imported-URL argument of updateModuleInfo
MaxImports == 2
\* longest accepted-URL argument of updateModuleInfo
MaxAccepted == 1
\* number of completed transforms explored by SpecHmr
MaxTransforms == 2
\* latest value of Date.now() explored
MaxClock == 1
\* number of file events explored by SpecHmr
MaxEvents == 1
\* number of steps of one stepwise update explored by SpecWalk
MaxSteps == 48
\* number of transformRequest calls explored by SpecTransform
MaxRequests == 2

(***************************************************************************)
(* Generic helpers: a JS Set iterates in insertion order, so the Sets      *)
(* whose iteration order reaches an output are sequences without           *)
(* duplicates.                                                             *)
(***************************************************************************)
Range(s) == {s[i] : i \in 1..Len(s)}

\* Set.prototype.add on an insertion-ordered Set
SetAdd(s, x) == IF x \in Range(s) THEN s ELSE Append(s, x)

\* Set.prototype.delete on an insertion-ordered Set
SetDelete(s, x) == SelectSeq(s, LAMBDA y : y # x)

\* the members of S in some fixed order
RECURSIVE SetToSeq(_)
SetToSeq(S) ==
    IF S = {} THEN <<>>
    ELSE LET x == CHOOSE y \in S : TRUE IN <<x>> \o SetToSeq(S \ {x})

\* the subsets of S with at most n members
SubsetsUpTo(S, n) == {T \in SUBSET S : Cardinality(T) <= n}

\* an absent value (null / undefined) is the empty set, a present one a singleton
None == {}
Some(x) == {x}
TheValue(o) == CHOOSE x \in o : TRUE

(***************************************************************************)
(* URLs.  A url is its pathname (p), whether the pathname carries the file *)
(* extension (ext), and its queries: ?direct, ?import, ?t=<timestamp>.     *)
(***************************************************************************)
Paths == {"a", "b", "c", "d"}

\* paths of CSS-family files (/c.css, /d.css); the others are JS files
\* (/a.js, /b.js)
CssPaths == {"c", "d"}

Url(p, ext, direct, imp, t) ==
    [p |-> p, ext |-> ext, direct |-> direct, imp |-> imp, t |-> t]

\* the raw urls that requests and import lists use
RawUrls ==
    { Url("a", FALSE, FALSE, FALSE, FALSE),    \* /a
      Url("b", TRUE, FALSE, FALSE, TRUE),      \* /b.js?t=1
      Url("c", TRUE, FALSE, TRUE, FALSE),      \* /c.css?import
      Url("c", TRUE, TRUE, FALSE, FALSE) }     \* /c.css?direct

\* the urls that import lists name and that entries are created for under Spec
ImportUrls == {u \in RawUrls : ~u.direct}

\* the urls requested and imported under SpecHmr
HmrUrls ==
    {u \in RawUrls : u.p \in CssPaths => u.direct}
        \cup {Url("d", TRUE, TRUE, FALSE, FALSE)}     \* /d.css?direct

removeTimestampQuery(url) == [url EXCEPT !.t = FALSE]

removeImportQuery(url) == [url EXCEPT !.imp = FALSE]

\* the plugin container's resolution: the file of the path, the query kept
resolveId(url) == [file |-> url.p, direct |-> url.direct]

\* strips query and hash
cleanUrl(id) == id.file

\* every file of the model has an extension (.js or .css)
extname(file) == TRUE

isCSSRequest(url) == url.p \in CssPaths

isDirectCSSRequest(url) == isCSSRequest(url) /\ url.direct

\* ModuleGraph.resolveUrl: <<url, resolvedId>>
resolveUrl(rawUrl) ==
    LET url == removeImportQuery(removeTimestampQuery(rawUrl))
        resolvedId == resolveId(url)
        ext == extname(cleanUrl(resolvedId))
    IN <<IF ext /\ ~url.ext THEN [url EXCEPT !.ext = TRUE] ELSE url, resolvedId>>

\* every node the raw urls can create, named by its url
NodeIds == {resolveUrl(u)[1] : u \in RawUrls}

(***************************************************************************)
(* State.                                                                  *)
(***************************************************************************)
VARIABLES
    urlToModuleMap,    \* ModuleGraph.urlToModuleMap: url -> node
    idToModuleMap,     \* ModuleGraph.idToModuleMap: resolved id -> node
    fileToModulesMap,  \* ModuleGraph.fileToModulesMap: file -> Set of nodes
    nodes,             \* the ModuleNode objects: node -> its fields
    nCalls,            \* updateModuleInfo calls made so far
    last,              \* the last completed graph operation: its arguments, the
                       \* imports it dropped and its result
    clock,             \* Date.now()
    ws,                \* the payloads the last operation sent through ws.send
    hmr,               \* the last file event handled: its file, module list, outcome
    nTransforms,       \* transforms completed so far
    nEvents,           \* file events handled so far
    walk,              \* the position of updateModules in its walks
    pendingRequests,   \* server._pendingRequests: cacheKey -> the request
    requests,          \* the promises doTransform returned, with the position
                       \* of each computation
    lastCall,          \* the last transformRequest call and what it returned
    disk,              \* the content of each file, as the number of its edits
    lexer,             \* a call of lexAcceptedHmrDeps: its code and what it gave
    mw,                \* the transform middleware: time, server._pendingReload,
                       \* the promises published and the requests received
    client,            \* the client: pending, queued, the promises of the
                       \* fetched updates and the callbacks invoked
    fetch,             \* a call of the client's fetchUpdate: its update, what
                       \* it awaits and the events so far
    plugins,           \* the handleHotUpdate hooks of the last file event: what
                       \* each was called with and what it returned
    globImporters,     \* server._globImporters: the entries in insertion order,
                       \* each with its key, its module and its importGlobs
    ensure,            \* the calls of ensureEntryFromUrl in flight and returned,
                       \* and the urls nodes were created for, in order
    stamps,            \* the calls of handleHMRUpdate that wait for a plugin's
                       \* hook, and the number of handlers that ran
    optimizer,         \* the cache directory of the optimizer and its last run
    hot,               \* the client's maps of hot modules and custom listeners,
                       \* and the hot contexts created
    ssr,               \* the nodes whose ssrModule is set, and the calls of
                       \* onFileChange made so far
    watcher,           \* the files ensureWatchedFile was called with
    info               \* the calls of updateModuleInfo that wait for
                       \* ensureEntryFromUrl, and the Set objects they hold

graphVars == <<urlToModuleMap, idToModuleMap, fileToModulesMap, nodes>>

hmrVars == <<clock, ws, hmr, nTransforms, nEvents, walk>>

reqVars == <<pendingRequests, requests, lastCall>>

tailVars == <<ssr, watcher, info>>

lastVars == <<hot, tailVars>>

lateVars == <<globImporters, ensure, stamps, optimizer, lastVars>>

auxVars == <<fetch, plugins, lateVars>>

vars == <<graphVars, nCalls, last, hmrVars, reqVars, disk, lexer, mw, client, auxVars>>

\* new ModuleNode(url): the constructor's field values
ModuleNode(url) ==
    [ url |-> url,
      id |-> None,
      file |-> None,
      type |-> IF isDirectCSSRequest(url) THEN "css" ELSE "js",
      importers |-> <<>>,
      importedModules |-> {},
      acceptedHmrDeps |-> {},
      isSelfAccepting |-> FALSE,
      transformResult |-> None,
      ssrTransformResult |-> None,
      lastHMRTimestamp |-> 0 ]

\* the graph as one value, for the operators that compute on it
Graph ==
    [ urlToModuleMap |-> urlToModuleMap,
      idToModuleMap |-> idToModuleMap,
      fileToModulesMap |-> fileToModulesMap,
      nodes |-> nodes ]

\* Map.prototype.set
MapSet(m, k, v) == (k :> v) @@ m

(***************************************************************************)
(* ModuleGraph.ensureEntryFromUrl: the graph after the call and the node   *)
(* returned.                                                               *)
(***************************************************************************)
ensureEntryFromUrl(G, rawUrl) ==
    LET resolved == resolveUrl(rawUrl)
        url == resolved[1]
        resolvedId == resolved[2]
    IN IF url \in DOMAIN G.urlToModuleMap
       THEN [G |-> G, mod |-> G.urlToModuleMap[url]]
       ELSE LET file == cleanUrl(resolvedId)
                mod == [ModuleNode(url) EXCEPT !.id = Some(resolvedId),
                                               !.file = Some(file)]
                fileMappedModules ==
                    IF file \in DOMAIN G.fileToModulesMap
                    THEN G.fileToModulesMap[file] ELSE <<>>
            IN [ G |-> [ urlToModuleMap |-> MapSet(G.urlToModuleMap, url, url),
                         idToModuleMap |-> MapSet(G.idToModuleMap, resolvedId, url),
                         fileToModulesMap |->
                             MapSet(G.fileToModulesMap, file,
                                    SetAdd(fileMappedModules, url)),
                         nodes |-> MapSet(G.nodes, url, mod) ],
                 mod |-> url ]

(***************************************************************************)
(* ModuleGraph.updateModuleInfo.  An argument item is a url string         *)
(* (k = "url") or a ModuleNode (k = "node"), as Set<string | ModuleNode>.  *)
(***************************************************************************)
UrlItem(u) == [k |-> "url", v |-> u]
NodeItem(n) == [k |-> "node", v |-> n]

\* typeof x === 'string' ? await this.ensureEntryFromUrl(x, ssr) : x
ResolveItem(G, item) ==
    IF item.k = "url" THEN ensureEntryFromUrl(G, item.v)
    ELSE [G |-> G, mod |-> item.v]

\* dep.importers.add(mod)
AddImporter(importers, mod) == SetAdd(importers, mod)

\* a plausible slip: the back-edge of a dropped import is kept
DeleteImporter_Skipped(importers, mod) == importers

\* dep.importers.delete(mod)
DeleteImporter(importers, mod) == SetDelete(importers, mod)

\* a plausible slip: every dropped import is reported
HasNoImporters_Always(importers) == TRUE

\* !dep.importers.size
HasNoImporters(importers) == Len(importers) = 0

\* a plausible slip: the new imports are added to the previous ones
NewImportedModules_Kept(old) == old

\* mod.importedModules = new Set()
NewImportedModules(old) == {}

\* a plausible slip: the new accepted deps are added to the previous ones
NewAcceptedHmrDeps_Kept(old) == old

\* mod.acceptedHmrDeps = new Set()
NewAcceptedHmrDeps(old) == {}

\* the first loop: dep.importers.add(mod); nextImports.add(dep)
RECURSIVE ImportLoop(_, _, _)
ImportLoop(G, mod, items) ==
    IF items = <<>> THEN G
    ELSE LET r == ResolveItem(G, Head(items))
             dep == r.mod
             n1 == [r.G.nodes EXCEPT ![dep].importers = AddImporter(@, mod)]
             n2 == [n1 EXCEPT ![mod].importedModules = @ \cup {dep}]
         IN ImportLoop([r.G EXCEPT !.nodes = n2], mod, Tail(items))

\* prevImports.forEach: drop the back-edge of every import that is gone;
\* the result is the node fields and noLongerImported (None when never set)
RECURSIVE PruneLoop(_, _, _, _)
PruneLoop(ns, mod, prevImports, noLongerImported) ==
    IF prevImports = {} THEN [nodes |-> ns, noLongerImported |-> noLongerImported]
    ELSE LET dep == CHOOSE d \in prevImports : TRUE
             rest == prevImports \ {dep}
         IN IF dep \notin ns[mod].importedModules
            THEN LET n1 == [ns EXCEPT ![dep].importers = DeleteImporter(@, mod)]
                 IN IF HasNoImporters(n1[dep].importers)
                    THEN PruneLoop(n1, mod, rest,
                                   IF noLongerImported = None THEN Some({dep})
                                   ELSE Some(TheValue(noLongerImported) \cup {dep}))
                    ELSE PruneLoop(n1, mod, rest, noLongerImported)
            ELSE PruneLoop(ns, mod, rest, noLongerImported)

\* the second loop: deps.add(dep)
RECURSIVE AcceptLoop(_, _, _)
AcceptLoop(G, mod, items) ==
    IF items = <<>> THEN G
    ELSE LET r == ResolveItem(G, Head(items))
             n1 == [r.G.nodes EXCEPT ![mod].acceptedHmrDeps = @ \cup {r.mod}]
         IN AcceptLoop([r.G EXCEPT !.nodes = n1], mod, Tail(items))

updateModuleInfo(G, mod, importedModules, acceptedModules, isSelfAccepting) ==
    LET prevImports == G.nodes[mod].importedModules
        G0 == [G EXCEPT !.nodes[mod].isSelfAccepting = isSelfAccepting,
                        !.nodes[mod].importedModules = NewImportedModules(@)]
        G1 == ImportLoop(G0, mod, importedModules)
        pruned == PruneLoop(G1.nodes, mod, prevImports, None)
        G2 == [G1 EXCEPT !.nodes = [pruned.nodes EXCEPT ![mod].acceptedHmrDeps =
                                        NewAcceptedHmrDeps(@)]]
        G3 == AcceptLoop(G2, mod, acceptedModules)
    IN [G |-> G3, noLongerImported |-> pruned.noLongerImported]

(***************************************************************************)
(* The HMR propagator (hmr.ts).                                            *)
(***************************************************************************)
\* a plausible slip: an importer is invalidated even though it accepts the module
AcceptsDep_Never(ns, importer, mod) == FALSE

\* importer.acceptedHmrDeps.has(mod)
AcceptsDep(ns, importer, mod) == mod \in ns[importer].acceptedHmrDeps

\* a plausible slip: the cached result survives the invalidation
ClearedTransformResult_Kept(old) == old

\* mod.transformResult = null
ClearedTransformResult(old) == None

\* invalidate(mod, timestamp, seen); st is [nodes, seen]
RECURSIVE invalidate(_, _, _), InvalidateImporters(_, _, _, _)
invalidate(st, mod, timestamp) ==
    IF mod \in st.seen THEN st
    ELSE LET st1 == [ nodes |-> [st.nodes EXCEPT
                                    ![mod].lastHMRTimestamp = timestamp,
                                    ![mod].transformResult = ClearedTransformResult(@),
                                    ![mod].ssrTransformResult = None],
                      seen |-> st.seen \cup {mod} ]
         IN InvalidateImporters(st1, mod, st1.nodes[mod].importers, timestamp)

\* mod.importers.forEach(...)
InvalidateImporters(st, mod, importers, timestamp) ==
    IF importers = <<>> THEN st
    ELSE LET importer == Head(importers)
             st1 == IF ~AcceptsDep(st.nodes, importer, mod)
                    THEN invalidate(st, importer, timestamp)
                    ELSE st
         IN InvalidateImporters(st1, mod, Tail(importers), timestamp)

\* a plausible slip: the two ends of a boundary are exchanged
Boundary_Swapped(boundary, acceptedVia) ==
    [boundary |-> acceptedVia, acceptedVia |-> boundary]

\* { boundary, acceptedVia }
Boundary(boundary, acceptedVia) == [boundary |-> boundary, acceptedVia |-> acceptedVia]

\* a plausible slip: the CSS importers of a self-accepting module are not walked
WalksCssImporter_Never(ns, importer, currentChain) == FALSE

\* isCSSRequest(importer.url) && !currentChain.includes(importer)
WalksCssImporter(ns, importer, currentChain) ==
    isCSSRequest(ns[importer].url) /\ importer \notin Range(currentChain)

\* a plausible slip: a module without importers is walked like any other
HasNoImportersLeft_Never(ns, node) == FALSE

\* !node.importers.size
HasNoImportersLeft(ns, node) == Len(ns[node].importers) = 0

\* a plausible slip: a circular import is walked past
CircularIsDeadEnd_Not == FALSE

\* circular deps is considered dead end: return true
CircularIsDeadEnd == TRUE

\* a plausible slip: the chain is never consulted
OnChain_Never(currentChain, importer) == FALSE

\* currentChain.includes(importer)
OnChain(currentChain, importer) == importer \in Range(currentChain)

\* propagateUpdate(node, boundaries, currentChain): whether the walk hit a
\* dead end, and the boundaries Set after the call (a Set of fresh objects:
\* a sequence, in which a pair may occur twice)
RECURSIVE propagateUpdate(_, _, _, _), CssImporterLoop(_, _, _, _, _),
          ImporterLoop(_, _, _, _, _)
propagateUpdate(ns, node, boundaries, currentChain) ==
    IF ns[node].isSelfAccepting
    THEN [ hasDeadEnd |-> FALSE,
           boundaries |-> CssImporterLoop(ns, node, ns[node].importers,
                                          Append(boundaries, Boundary(node, node)),
                                          currentChain) ]
    ELSE IF HasNoImportersLeft(ns, node)
    THEN [hasDeadEnd |-> TRUE, boundaries |-> boundaries]
    ELSE IF /\ ~isCSSRequest(ns[node].url)
            /\ \A i \in Range(ns[node].importers) : isCSSRequest(ns[i].url)
    THEN [hasDeadEnd |-> TRUE, boundaries |-> boundaries]
    ELSE ImporterLoop(ns, node, ns[node].importers, boundaries, currentChain)

\* for (const importer of node.importers) of the self-accepting branch: the
\* result of each nested walk is dropped, its boundaries are kept
CssImporterLoop(ns, node, importers, boundaries, currentChain) ==
    IF importers = <<>> THEN boundaries
    ELSE LET importer == Head(importers)
             b1 == IF WalksCssImporter(ns, importer, currentChain)
                   THEN propagateUpdate(ns, importer, boundaries,
                                        Append(currentChain, importer)).boundaries
                   ELSE boundaries
         IN CssImporterLoop(ns, node, Tail(importers), b1, currentChain)

\* for (const importer of node.importers) of the general branch
ImporterLoop(ns, node, importers, boundaries, currentChain) ==
    IF importers = <<>> THEN [hasDeadEnd |-> FALSE, boundaries |-> boundaries]
    ELSE LET importer == Head(importers)
             subChain == Append(currentChain, importer)
         IN IF AcceptsDep(ns, importer, node)
            THEN ImporterLoop(ns, node, Tail(importers),
                              Append(boundaries, Boundary(importer, node)),
                              currentChain)
            ELSE IF OnChain(currentChain, importer) /\ CircularIsDeadEnd
            THEN [hasDeadEnd |-> TRUE, boundaries |-> boundaries]
            ELSE IF OnChain(currentChain, importer)
            THEN ImporterLoop(ns, node, Tail(importers), boundaries, currentChain)
            ELSE LET r == propagateUpdate(ns, importer, boundaries, subChain)
                 IN IF r.hasDeadEnd THEN r
                    ELSE ImporterLoop(ns, node, Tail(importers), r.boundaries,
                                      currentChain)

(***************************************************************************)
(* updateModules step by step: each call of invalidate and propagateUpdate *)
(* is a frame on a stack, each iteration of their loops is a step.         *)
(***************************************************************************)
\* the position of updateModules: the modules still to handle (the current
\* one first), the frames of invalidate and of propagateUpdate, the locals
\* of updateModules and the steps taken
Idle ==
    [ phase |-> "idle", modules |-> <<>>, timestamp |-> 0, seen |-> {},
      istack |-> <<>>, pstack |-> <<>>, boundaries |-> <<>>,
      hasDeadEnd |-> FALSE, needFullReload |-> FALSE, updates |-> <<>>,
      steps |-> 0, circular |-> {} ]

\* a frame of invalidate: the importers of mod still to visit
IFrame(mod, rest) == [mod |-> mod, rest |-> rest]

\* a frame of propagateUpdate: the importers of node still to visit, in the
\* loop of the self-accepting branch ("css") or of the general one ("gen")
PFrame(node, currentChain, rest, loop) ==
    [node |-> node, currentChain |-> currentChain, rest |-> rest, loop |-> loop]

Pop(stack) == SubSeq(stack, 1, Len(stack) - 1)
Top(stack) == stack[Len(stack)]
SetTop(stack, f) == [stack EXCEPT ![Len(stack)] = f]

\* the call invalidate(mod, timestamp, seen), up to its forEach; st is
\* [walk, nodes]
InvalidateCall(st, mod) ==
    IF mod \in st.walk.seen THEN st
    ELSE [ walk |-> [st.walk EXCEPT
                        !.seen = @ \cup {mod},
                        !.istack = Append(@, IFrame(mod, st.nodes[mod].importers))],
           nodes |-> [st.nodes EXCEPT
                        ![mod].lastHMRTimestamp = st.walk.timestamp,
                        ![mod].transformResult = ClearedTransformResult(@),
                        ![mod].ssrTransformResult = None] ]

\* a call of propagateUpdate returns hasDeadEnd to the frame below it: the
\* loop of the self-accepting branch drops it, the general loop returns true
\* on true, updateModules keeps it
RECURSIVE PropagateReturn(_, _)
PropagateReturn(w, hasDeadEnd) ==
    IF w.pstack = <<>>
    THEN [w EXCEPT !.hasDeadEnd = hasDeadEnd, !.phase = "collect"]
    ELSE IF Top(w.pstack).loop = "gen" /\ hasDeadEnd
    THEN PropagateReturn([w EXCEPT !.pstack = Pop(@)], TRUE)
    ELSE w

\* where a circular import was met: in a walk started by updateModules
\* ("direct"), or in one started from the loop over the CSS importers of a
\* self-accepting module ("nested")
Circular(pstack) ==
    IF \E i \in 1..Len(pstack) : pstack[i].loop = "css" THEN "nested" ELSE "direct"

\* the call propagateUpdate(node, boundaries, currentChain), up to its loops
PropagateCall(ns, w, node, currentChain) ==
    IF ns[node].isSelfAccepting
    THEN [w EXCEPT !.boundaries = Append(@, Boundary(node, node)),
                   !.pstack = Append(@, PFrame(node, currentChain,
                                               ns[node].importers, "css"))]
    ELSE IF HasNoImportersLeft(ns, node)
    THEN PropagateReturn(w, TRUE)
    ELSE IF /\ ~isCSSRequest(ns[node].url)
            /\ \A i \in Range(ns[node].importers) : isCSSRequest(ns[i].url)
    THEN PropagateReturn(w, TRUE)
    ELSE [w EXCEPT !.pstack = Append(@, PFrame(node, currentChain,
                                               ns[node].importers, "gen"))]

\* the payloads of ws.send
FullReload(path) == [type |-> "full-reload", path |-> path, updates |-> <<>>]
UpdatePayload(updates) == [type |-> "update", path |-> None, updates |-> updates]

\* a plausible slip: every entry is typed as a script update
UpdateType_AlwaysJs(type) == "js-update"

\* a plausible slip: the updates are sent although a reload is needed
Payload_UpdateOnly(needFullReload, updates) == UpdatePayload(updates)

\* the one payload updateModules sends after its loop
Payload(needFullReload, updates) ==
    IF needFullReload THEN FullReload(None) ELSE UpdatePayload(updates)

\* `${boundary.type}-update`
UpdateType(type) == IF type = "css" THEN "css-update" ELSE "js-update"

\* one entry of an update payload
Update(ns, b, timestamp) ==
    [ type |-> UpdateType(ns[b.boundary].type),
      timestamp |-> timestamp,
      path |-> ns[b.boundary].url,
      acceptedPath |-> ns[b.acceptedVia].url ]

\* the for loop of updateModules; st is [nodes, seen, needFullReload, updates]
RECURSIVE UpdateLoop(_, _, _)
UpdateLoop(st, modules, timestamp) ==
    IF modules = <<>> THEN st
    ELSE LET mod == Head(modules)
             inv == invalidate([nodes |-> st.nodes, seen |-> st.seen], mod, timestamp)
             st1 == [st EXCEPT !.nodes = inv.nodes, !.seen = inv.seen]
         IN IF st1.needFullReload
            THEN UpdateLoop(st1, Tail(modules), timestamp)
            ELSE LET r == propagateUpdate(st1.nodes, mod, <<>>, <<mod>>)
                 IN IF r.hasDeadEnd
                    THEN UpdateLoop([st1 EXCEPT !.needFullReload = TRUE],
                                    Tail(modules), timestamp)
                    ELSE UpdateLoop(
                            [st1 EXCEPT !.updates = @ \o
                                [i \in 1..Len(r.boundaries) |->
                                    Update(st1.nodes, r.boundaries[i], timestamp)]],
                            Tail(modules), timestamp)

\* updateModules(file, modules, timestamp, server): the node fields after
\* the call and the payloads sent
updateModules(ns, modules, timestamp) ==
    LET st == UpdateLoop([nodes |-> ns, seen |-> {}, needFullReload |-> FALSE,
                          updates |-> <<>>], modules, timestamp)
    IN [ nodes |-> st.nodes,
         sent |-> <<Payload(st.needFullReload, st.updates)>> ]

\* the files whose change events are handled
ConfigFile == "vite.config.js"
ClientFile == "client.mjs"
HtmlFile == "index.html"
Files == Paths \cup {ConfigFile, ClientFile, HtmlFile}

\* file === config.configFile
isConfig(file) == file = ConfigFile

\* file.startsWith(normalizedClientDir)
inClientDir(file) == file = ClientFile

isHtml_Never(file) == FALSE

\* file.endsWith('.html')
isHtml(file) == file = HtmlFile

\* the path of the reload of a page: '*' in middleware mode, else '/' and the
\* file's path relative to the root
ReloadPath(middlewareMode, file) ==
    IF middlewareMode THEN <<"*">> ELSE <<"/", file>>

\* the for loop over config.plugins: each handleHotUpdate result that is a
\* list replaces hmrContext.modules
RECURSIVE PluginLoop(_, _)
PluginLoop(modules, hookResults) ==
    IF hookResults = <<>> THEN modules
    ELSE PluginLoop(IF Head(hookResults) # None THEN TheValue(Head(hookResults))
                    ELSE modules,
                    Tail(hookResults))

\* what a handleHotUpdate hook of a kind returns when it is called with the
\* list modules, other being a module of the graph: nothing, an empty list,
\* a narrowed list or a widened list
Hook(kind, modules, other) ==
    CASE kind = "nothing" -> None
      [] kind = "empty" -> Some(<<>>)
      [] kind = "narrow" -> Some(IF modules = <<>> THEN <<>> ELSE <<Head(modules)>>)
      [] kind = "widen" -> Some(IF \E i \in DOMAIN modules : modules[i] = other
                                THEN modules ELSE Append(modules, other))

ContextModules_Original(original, modules) == original

\* hmrContext.modules when a hook is called: the list as the hooks before
\* it left it
ContextModules(original, modules) == modules

\* the for loop over config.plugins, with what every hook is called with and
\* returns; a plugin of kind "absent" has no handleHotUpdate
RECURSIVE PluginCalls(_, _, _, _)
PluginCalls(original, modules, kinds, other) ==
    IF kinds = <<>> THEN [seen |-> <<>>, results |-> <<>>]
    ELSE IF Head(kinds) = "absent"
    THEN LET rest == PluginCalls(original, modules, Tail(kinds), other)
         IN  [seen |-> <<None>> \o rest.seen, results |-> <<None>> \o rest.results]
    ELSE LET seen == ContextModules(original, modules)
             filteredModules == Hook(Head(kinds), seen, other)
             rest == PluginCalls(original,
                                 IF filteredModules # None
                                 THEN TheValue(filteredModules) ELSE modules,
                                 Tail(kinds), other)
         IN  [seen |-> <<Some(seen)>> \o rest.seen,
              results |-> <<filteredModules>> \o rest.results]

NoEvent == [outcome |-> "none"]

\* updateModules is between its first and its last statement
Walking == walk.phase \notin {"idle", "done"}

\* the nodes that hold a cached transformResult
Cached(ns) == {n \in DOMAIN ns : ns[n].transformResult # None}

(***************************************************************************)
(* The transform pipeline (transformRequest.ts).                           *)
(***************************************************************************)
\* the urls requested under SpecTransform: /a, /b.js and /b.js?t=1
TransformUrls ==
    { Url("a", FALSE, FALSE, FALSE, FALSE),
      Url("b", TRUE, FALSE, FALSE, FALSE),
      Url("b", TRUE, FALSE, FALSE, TRUE) }

\* TransformOptions: none, { ssr: true }, { html: true }
TransformOptions == {"", "ssr", "html"}

\* (options.ssr ? 'ssr:' : options.html ? 'html:' : '') + url
CacheKey(url, options) == [prefix |-> options, url |-> url]

NoCall == [op |-> "none"]

\* a plausible slip: done is registered for fulfilment only
RunsDone_OnFulfilled(outcome) == outcome = "resolved"

\* request.then(done, done)
RunsDone(outcome) == outcome \in {"resolved", "rejected"}

\* server._pendingRequests.get(cacheKey)
PendingRequest(pending, cacheKey) ==
    IF cacheKey \in DOMAIN pending THEN Some(pending[cacheKey]) ELSE None

\* a plausible slip: the entry stays in the map
MapDelete_Kept(m, k) == m

\* server._pendingRequests.delete(cacheKey)
MapDelete(m, k) == [x \in DOMAIN m \ {k} |-> m[x]]

\* the promise of a doTransform call and the position of the call
Request(cacheKey, url, options) ==
    [ cacheKey |-> cacheKey, url |-> removeTimestampQuery(url), options |-> options,
      pc |-> "getModule", outcome |-> "pending", value |-> None, code |-> None ]

\* the promise settles; its reactions have not run yet
Settled(req, outcome, value) ==
    [req EXCEPT !.pc = "settled", !.outcome = outcome, !.value = value]

\* fs.readFile(file, 'utf-8'), or what a load hook reads: the code of the
\* file as it is on disk
ReadFile(d, file) == <<"code", file, d[file]>>

\* the cached result doTransform looks at
CachedResult(mod, options) ==
    IF options = "ssr" THEN mod.ssrTransformResult ELSE mod.transformResult

(***************************************************************************)
(* The graph operations as actions.                                        *)
(***************************************************************************)
NoOp == [op |-> "none"]

\* the nodes an argument stands for
NodesFor(items) ==
    {IF items[i].k = "url" THEN resolveUrl(items[i].v)[1] ELSE items[i].v :
        i \in 1..Len(items)}

SetGraph(G) ==
    /\ urlToModuleMap' = G.urlToModuleMap
    /\ idToModuleMap' = G.idToModuleMap
    /\ fileToModulesMap' = G.fileToModulesMap
    /\ nodes' = G.nodes

EnsureEntryFromUrl(rawUrl) ==
    LET r == ensureEntryFromUrl(Graph, rawUrl)
    IN /\ SetGraph(r.G)
       /\ last' = [op |-> "ensureEntryFromUrl", mod |-> r.mod]
       /\ UNCHANGED <<nCalls, hmrVars, reqVars, disk, lexer, mw, client, auxVars>>

\* the imported-modules arguments explored: up to MaxImports url strings,
\* or the ModuleNode of a CSS file that exists
ImportArgs ==
    {SetToSeq({UrlItem(u) : u \in U}) : U \in SubsetsUpTo(ImportUrls, MaxImports)}
        \cup {<<NodeItem(n)>> : n \in {m \in DOMAIN nodes : isCSSRequest(m)}}

\* the urls that hot.accept calls name
AcceptUrls == {u \in ImportUrls : u.p = "b"}

\* the accepted-modules arguments explored: up to MaxAccepted url strings
AcceptArgs ==
    {SetToSeq({UrlItem(u) : u \in U}) : U \in SubsetsUpTo(AcceptUrls, MaxAccepted)}

UpdateModuleInfo(mod, importedModules, acceptedModules, isSelfAccepting) ==
    /\ nCalls < MaxCalls
    /\ LET r == updateModuleInfo(Graph, mod, importedModules, acceptedModules,
                                 isSelfAccepting)
       IN /\ SetGraph(r.G)
          /\ last' = [op |-> "updateModuleInfo", mod |-> mod,
                      imported |-> NodesFor(importedModules),
                      accepted |-> NodesFor(acceptedModules),
                      isSelfAccepting |-> isSelfAccepting,
                      dropped |-> nodes[mod].importedModules
                                      \ NodesFor(importedModules),
                      noLongerImported |-> r.noLongerImported]
    /\ nCalls' = nCalls + 1
    /\ UNCHANGED <<hmrVars, reqVars, disk, lexer, mw, client, auxVars>>

(***************************************************************************)
(* lexAcceptedHmrDeps: the lexer of the arguments of import.meta.hot.accept *)
(* Code is a sequence of one-character strings; positions are the          *)
(* zero-based indices of the source.                                       *)
(***************************************************************************)
\* enum LexerState
inCall == "inCall"
inSingleQuoteString == "inSingleQuoteString"
inDoubleQuoteString == "inDoubleQuoteString"
inTemplateString == "inTemplateString"
inArray == "inArray"

\* the grave accent that delimits template strings, as a character of the
\* code
Backquote == "BQ"

\* code.charAt(i): the empty string outside the code
charAt(code, i) == IF i >= 0 /\ i < Len(code) THEN code[i + 1] ELSE ""

\* /\s/.test(char)
IsSpace(char) == char \in {" ", "\n"}

\* the characters that open a string, and the state each one opens
StringState(char) ==
    CASE char = "'" -> inSingleQuoteString
      [] char = "\"" -> inDoubleQuoteString
      [] char = Backquote -> inTemplateString

IsQuote(char) == char \in {"'", "\"", Backquote}

\* the character that closes the string of a string state
Delimiter(state) ==
    CASE state = inSingleQuoteString -> "'"
      [] state = inDoubleQuoteString -> "\""
      [] state = inTemplateString -> Backquote

\* the local variables of the lexer at the start
LexerStart == [state |-> inCall, prevState |-> inCall, currentDep |-> <<>>,
               urls |-> <<>>]

\* a plausible slip: the span starts behind the opening delimiter
addDep_BehindQuote(lx, index) ==
    [lx EXCEPT !.urls = Append(@, [url |-> lx.currentDep,
                                    start |-> index - Len(lx.currentDep),
                                    end |-> index + 1]),
               !.currentDep = <<>>]

\* addDep(index): the dep read so far joins urls, with its span
addDep(lx, index) ==
    [lx EXCEPT !.urls = Append(@, [url |-> lx.currentDep,
                                    start |-> index - Len(lx.currentDep) - 1,
                                    end |-> index + 1]),
               !.currentDep = <<>>]

\* return selfAccepts, with the urls added to the caller's set
Returned(selfAccepts, lx) ==
    [kind |-> "return", selfAccepts |-> {selfAccepts}, pos |-> {},
     urls |-> lx.urls]

error_Silent(pos, lx) == Returned(FALSE, lx)

\* error(pos): the throw of an error that carries pos; nothing is returned
error(pos, lx) ==
    [kind |-> "throw", selfAccepts |-> {}, pos |-> {pos}, urls |-> lx.urls]

\* whether the template string stops at an interpolation
IsInterpolation(code, i) == charAt(code, i) = "$" /\ charAt(code, i + 1) = "{"

\* the loop of lexAcceptedHmrDeps from index i on
RECURSIVE LexLoop(_, _, _)
LexLoop(code, i, lx) ==
    IF i >= Len(code) THEN Returned(FALSE, lx)
    ELSE LET char == charAt(code, i) IN
    IF lx.state \in {inCall, inArray} THEN
        IF IsQuote(char)
        THEN LexLoop(code, i + 1, [lx EXCEPT !.prevState = lx.state,
                                             !.state = StringState(char)])
        ELSE IF IsSpace(char) THEN LexLoop(code, i + 1, lx)
        ELSE IF lx.state = inCall THEN
            IF char = "[" THEN LexLoop(code, i + 1, [lx EXCEPT !.state = inArray])
            ELSE Returned(TRUE, lx)
        ELSE
            IF char = "]" THEN Returned(FALSE, lx)
            ELSE IF char = "," THEN LexLoop(code, i + 1, lx)
            ELSE error(i, lx)
    ELSE
        IF char = Delimiter(lx.state) THEN
            IF lx.prevState = inCall THEN Returned(FALSE, addDep(lx, i))
            ELSE LexLoop(code, i + 1,
                         [addDep(lx, i) EXCEPT !.state = lx.prevState])
        ELSE IF lx.state = inTemplateString /\ IsInterpolation(code, i)
        THEN error(i, lx)
        ELSE LexLoop(code, i + 1, [lx EXCEPT !.currentDep = Append(@, char)])

\* lexAcceptedHmrDeps(code, start, urls) with an empty urls
lexAcceptedHmrDeps(code, start) == LexLoop(code, start, LexerStart)

\* no call of the lexer
NoLexer == [code |-> <<>>, start |-> 0, args |-> {}, out |-> {}]

\* the quotes of string literals
Quotes == {"'", "\"", Backquote}

\* the texts a string literal of quote q is made of: one character that is
\* not q, or q behind a backslash
Atoms(q) ==
    {<<c>> : c \in ({"x", ",", "]", "$", " "} \cup Quotes) \ {q}}
        \cup {<<"\\", q>>}

RECURSIVE Flatten(_)
Flatten(seqs) ==
    IF seqs = <<>> THEN <<>> ELSE Head(seqs) \o Flatten(Tail(seqs))

\* the texts between the quotes of a literal of quote q, none of them with
\* an interpolation
Contents(q) ==
    {<<>>, <<"x", "y">>, <<"$", "x">>} \cup {Flatten(<<a>>) : a \in Atoms(q)}

Literals ==
    UNION {{[quote |-> q, content |-> c] : c \in Contents(q)} : q \in Quotes}

\* the source text of a literal
LiteralText(l) == <<l.quote>> \o l.content \o <<l.quote>>

MaxDeps == 2

\* the callbacks that follow the deps
Callbacks == {<<"x">>, <<"(", ")", "=", ">", "x">>}

\* the arguments of a call of import.meta.hot.accept: an array of literals, a
\* single literal, a callback alone, an expression that is no literal in the
\* place of the dep, or nothing
HotAcceptArg(form, lits, sp, cb) ==
    [form |-> form, lits |-> lits, sp |-> sp, cb |-> cb]

Space(sp) == IF sp THEN <<" ">> ELSE <<>>

RECURSIVE Elements(_, _)
Elements(lits, sp) ==
    IF lits = <<>> THEN <<>>
    ELSE Space(sp) \o LiteralText(Head(lits))
         \o (IF Len(lits) > 1 THEN <<",">> ELSE Space(sp))
         \o Elements(Tail(lits), sp)

\* the source text of the arguments, up to the parenthesis that closes the
\* call
ArgsText(a) ==
    CASE a.form = "array" ->
            Space(a.sp) \o <<"[">> \o Elements(a.lits, a.sp) \o <<"]", ",", " ">>
                \o a.cb \o <<")">>
      [] a.form = "single" ->
            Space(a.sp) \o LiteralText(a.lits[1]) \o <<",", " ">> \o a.cb
                \o <<")">>
      [] a.form = "callback" -> Space(a.sp) \o a.cb \o <<")">>
      [] a.form = "expression" ->
            Space(a.sp) \o <<"x", ",", " ">> \o a.cb \o <<")">>
      [] a.form = "empty" -> Space(a.sp) \o <<")">>

MaxRaw == 4

RawChars == {"'", Backquote, "[", "]", ",", " ", "x", "$", "{"}

\* the code in front of the arguments, which the lexer is started behind
Prefixes == {<<>>, <<"(">>}

\* a call of the lexer behind the prefix pre: on the text of the arguments
\* args, or on the text code
LexerInput(pre, code, args) ==
    [code |-> pre \o code, start |-> Len(pre), args |-> args, out |-> {}]

(***************************************************************************)
(* viteTransformMiddleware and server._pendingReload.  Urls are sequences  *)
(* of path segments; time is in milliseconds.                              *)
(***************************************************************************)
NEW_DEPENDENCY_BUILD_TIMEOUT == 1000

\* the url the client is served at
CLIENT_PUBLIC_PATH == <<"@vite", "client">>

\* 'vite/dist/client'
ClientDir == <<"vite", "dist", "client">>

knownIgnoreList == {<<>>, <<"favicon.ico">>}

\* url.startsWith(prefix)
startsWith(url, prefix) ==
    Len(url) >= Len(prefix) /\ SubSeq(url, 1, Len(prefix)) = prefix

\* url.includes(part)
includes(url, part) ==
    \E i \in 0..(Len(url) - Len(part)) : SubSeq(url, i + 1, i + Len(part)) = part

IsClientRequest_Never(url) == FALSE

\* the requests of the client, which are always allowed
IsClientRequest(url) ==
    startsWith(url, CLIENT_PUBLIC_PATH) \/ includes(url, ClientDir)

\* the requests received, each a method and a url
Requests ==
    {<<"GET", url>> : url \in
        {<<>>, CLIENT_PUBLIC_PATH, <<"a.js">>,
         <<"@fs", "x", "vite", "dist", "client", "env.mjs">>}}
    \cup {<<"POST", <<"a.js">>>>}

\* the middleware before any request, with no reload pending
NoRequests == [now |-> 0, pendingReload |-> {}, promises |-> <<>>, reqs |-> <<>>]

(***************************************************************************)
(* The client's queueUpdate.                                               *)
(***************************************************************************)
\* the client before any message: pending = false, queued = []
NoUpdates ==
    [pending |-> FALSE, queued |-> <<>>, promises |-> <<>>, flushes |-> <<>>,
     invoked |-> <<>>, settled |-> <<>>, todo |-> 0, nMessages |-> 0]

AllValues_Reversed(loading) ==
    [i \in 1..Len(loading) |-> loading[Len(loading) + 1 - i]]

\* the values of Promise.all(loading), in the order of loading
AllValues(loading) == loading

\* the client before any call of fetchUpdate
NoFetch ==
    [stage |-> "idle", update |-> {}, callbacks |-> <<>>, disposeMap |-> {},
     modulesToUpdate |-> <<>>, qualifiedCallbacks |-> <<>>, deps |-> <<>>,
     moduleMap |-> {}, events |-> <<>>, fn |-> FALSE]

\* no plugin was called
NoPlugins == [mods |-> <<>>, seen |-> <<>>, results |-> <<>>]

\* no call of ensureEntryFromUrl was made
NoEnsure == [calls |-> <<>>, created |-> <<>>, last |-> 0]

\* no handler of a file event or of pruned modules has run
NoStamps == [inflight |-> <<>>, handled |-> 0]

\* no cache directory, no run of the optimizer
NoOptimizer == [cacheDir |-> {}, run |-> [outcome |-> "none"], runs |-> 0]

\* no call of updateModuleInfo is in flight
NoInfo == [calls |-> <<>>, sets |-> <<>>, current |-> <<>>]

\* no node has an ssrModule and onFileChange was never called
NoSsr == [cache |-> {}, events |-> 0, file |-> ""]

\* the client's maps when client.ts is loaded: all empty, no context yet
NoHot ==
    [hotModulesMap |-> <<>>, customListenersMap |-> <<>>,
     ctxToListenersMap |-> <<>>, contexts |-> <<>>, last |-> [op |-> "none"]]

\* the server after construction
InitServer ==
    /\ urlToModuleMap = <<>>
    /\ idToModuleMap = <<>>
    /\ fileToModulesMap = <<>>
    /\ nodes = <<>>
    /\ nCalls = 0
    /\ last = NoOp
    /\ clock = 1
    /\ ws = <<>>
    /\ hmr = NoEvent
    /\ nTransforms = 0
    /\ nEvents = 0
    /\ walk = Idle
    /\ pendingRequests = <<>>
    /\ requests = <<>>
    /\ lastCall = NoCall
    /\ disk = [file \in Paths |-> 0]
    /\ mw = NoRequests
    /\ client = NoUpdates
    /\ fetch = NoFetch
    /\ plugins = NoPlugins
    /\ globImporters = <<>>
    /\ ensure = NoEnsure
    /\ stamps = NoStamps
    /\ optimizer = NoOptimizer
    /\ hot = NoHot
    /\ ssr = NoSsr
    /\ watcher = {}
    /\ info = NoInfo

Init == InitServer /\ lexer = NoLexer

Next ==
    \/ \E rawUrl \in ImportUrls : EnsureEntryFromUrl(rawUrl)
    \/ \E mod \in DOMAIN nodes :
       \E importedModules \in ImportArgs :
       \E acceptedModules \in AcceptArgs :
       \E isSelfAccepting \in BOOLEAN :
          UpdateModuleInfo(mod, importedModules, acceptedModules, isSelfAccepting)

Spec == Init /\ [][Next]_vars

(***************************************************************************)
(* File events and transforms as actions.                                  *)
(***************************************************************************)
\* handleHMRUpdate(file, server), with the results the plugins'
\* handleHotUpdate hooks return and the value Date.now() returns
HandleHMRUpdate(file, hookResults, timestamp) ==
    /\ nEvents < MaxEvents
    /\ nEvents' = nEvents + 1
    /\ clock' = timestamp
    /\ ~Walking
    /\ UNCHANGED <<urlToModuleMap, idToModuleMap, fileToModulesMap, nCalls,
                   nTransforms, walk, reqVars>>
    /\ last' = NoOp
    /\ IF isConfig(file)
       THEN /\ hmr' = [outcome |-> "restart", file |-> file]
            /\ ws' = <<>>
            /\ UNCHANGED nodes
       ELSE IF inClientDir(file)
       THEN /\ hmr' = [outcome |-> "client", file |-> file]
            /\ ws' = <<FullReload(Some(<<"*">>))>>
            /\ UNCHANGED nodes
       ELSE LET mods == IF file \in DOMAIN fileToModulesMap
                        THEN fileToModulesMap[file] ELSE <<>>
                modules == PluginLoop(mods, hookResults)
            IN IF Len(modules) = 0
               THEN /\ \E middlewareMode \in (IF isHtml(file) THEN BOOLEAN
                                              ELSE {FALSE}) :
                        /\ hmr' = [outcome |-> "no-modules", file |-> file,
                                   mapped |-> Len(mods) > 0,
                                   middlewareMode |-> middlewareMode,
                                   cachedBefore |-> Cached(nodes)]
                        /\ ws' = IF isHtml(file)
                                 THEN <<FullReload(Some(
                                            ReloadPath(middlewareMode, file)))>>
                                 ELSE <<>>
                    /\ UNCHANGED nodes
               ELSE LET r == updateModules(nodes, modules, timestamp)
                    IN /\ hmr' = [ outcome |-> "updateModules",
                                   modules |-> modules,
                                   replaced |-> modules # mods,
                                   mapped |-> Len(mods) > 0,
                                   timestamp |-> timestamp,
                                   cachedBefore |-> Cached(nodes) ]
                       /\ ws' = r.sent
                       /\ nodes' = r.nodes

\* getEtag(code, { weak: true })
getEtag(code) == <<"W/", code>>

\* the imported urls import analysis finds in a module: not the module itself
HmrImportArgs(rawUrl) ==
    {SetToSeq({UrlItem(u) : u \in U}) :
        U \in SubsetsUpTo({u \in HmrUrls : resolveUrl(u)[1] # resolveUrl(rawUrl)[1]},
                          MaxImports)}

\* the accepted urls it finds: among the imported ones
HmrAcceptArgs(importedModules) ==
    {SetToSeq(U) : U \in SubsetsUpTo(Range(importedModules), MaxAccepted)}

\* a completed doTransform of a url that has no cached result: the entry is
\* ensured, the transform hooks run (import analysis calls updateModuleInfo
\* with what it found in the code) and the result is cached
TransformModule(rawUrl, importedModules, acceptedModules, isSelfAccepting) ==
    /\ nTransforms < MaxTransforms
    /\ ~Walking
    /\ LET url == resolveUrl(removeTimestampQuery(rawUrl))[1]
       IN url \in DOMAIN urlToModuleMap =>
              nodes[urlToModuleMap[url]].transformResult = None
    /\ LET e == ensureEntryFromUrl(Graph, removeTimestampQuery(rawUrl))
           r == updateModuleInfo(e.G, e.mod, importedModules, acceptedModules,
                                 isSelfAccepting)
           code == ReadFile(disk, TheValue(r.G.nodes[e.mod].file))
       IN SetGraph([r.G EXCEPT !.nodes[e.mod].transformResult =
                        Some([code |-> code, etag |-> getEtag(code)])])
    /\ nTransforms' = nTransforms + 1
    /\ last' = NoOp
    /\ hmr' = NoEvent
    /\ ws' = <<>>
    /\ walk' = Idle
    /\ UNCHANGED <<nCalls, clock, nEvents, reqVars, disk, lexer, mw, client, auxVars>>

\* the results one plugin's handleHotUpdate hook can return
HookResults ==
    {<<>>, <<None>>, <<Some(<<>>)>>}
        \cup {<<Some(<<n>>)>> : n \in DOMAIN nodes}

NextHmr ==
    \/ \E rawUrl \in HmrUrls :
       \E importedModules \in HmrImportArgs(rawUrl) :
       \E acceptedModules \in HmrAcceptArgs(importedModules) :
       \E isSelfAccepting \in BOOLEAN :
          TransformModule(rawUrl, importedModules, acceptedModules, isSelfAccepting)
    \/ \E file \in Files :
       \E hookResults \in HookResults :
       \E timestamp \in clock..MaxClock :
          HandleHMRUpdate(file, hookResults, timestamp) /\ UNCHANGED <<disk, lexer, mw, client, auxVars>>

SpecHmr == Init /\ [][NextHmr]_vars

\* the module lists a plugin's handleHotUpdate hook can return: one or two
\* modules of the graph
ModuleLists ==
    {<<n>> : n \in DOMAIN nodes} \cup {<<n, m>> : n, m \in DOMAIN nodes}

\* file events whose module list a plugin replaces
NextLists ==
    \/ \E rawUrl \in HmrUrls :
       \E importedModules \in HmrImportArgs(rawUrl) :
       \E acceptedModules \in HmrAcceptArgs(importedModules) :
       \E isSelfAccepting \in BOOLEAN :
          TransformModule(rawUrl, importedModules, acceptedModules, isSelfAccepting)
    \/ \E file \in Paths :
       \E modules \in ModuleLists :
       \E timestamp \in clock..MaxClock :
          HandleHMRUpdate(file, <<Some(modules)>>, timestamp) /\ UNCHANGED <<disk, lexer, mw, client, auxVars>>

SpecLists == Init /\ [][NextLists]_vars

\* the kinds of plugins
PluginKinds == {"absent", "nothing", "empty", "narrow", "widen"}

MaxPlugins == 2

\* the module a widening hook adds: one of the graph that is not of the
\* file, if there is one
OtherModule(file) ==
    LET others == {n \in DOMAIN nodes : nodes[n].file # Some(file)}
    IN  IF others = {} THEN CHOOSE n \in DOMAIN nodes : TRUE
        ELSE CHOOSE n \in others : TRUE

\* a file event with the hooks of the plugins of config.plugins, in their order
HandleHMRUpdateWithPlugins(file, kinds, other, timestamp) ==
    LET mods == IF file \in DOMAIN fileToModulesMap
                THEN fileToModulesMap[file] ELSE <<>>
        calls == PluginCalls(mods, mods, kinds, other)
    IN  /\ HandleHMRUpdate(file, calls.results, timestamp)
        /\ plugins' = [mods |-> mods, seen |-> calls.seen,
                       results |-> calls.results]
        /\ UNCHANGED <<disk, lexer, mw, client, fetch, lateVars>>

NextPlugins ==
    \/ \E rawUrl \in HmrUrls : plugins = NoPlugins /\ EnsureEntryFromUrl(rawUrl)
    \/ \E file \in Paths :
       \E n \in 1..MaxPlugins : \E kinds \in [1..n -> PluginKinds] :
       \E timestamp \in clock..MaxClock :
          /\ nodes # <<>>
          /\ HandleHMRUpdateWithPlugins(file, kinds, OtherModule(file), timestamp)

SpecPlugins == Init /\ [][NextPlugins]_vars

(***************************************************************************)
(* File additions and removals: handleFileAddUnlink and the registry of    *)
(* glob importers.  A path is a tuple of its segments: <<"/", "a">> is the *)
(* absolute path of the file a, <<"a">> its path relative to the root.     *)
(***************************************************************************)
\* the directories a glob can be based in: the root, where the files are,
\* and a directory beside it
RootDir == <<"/">>
OtherDir == <<"/", "other">>

\* the absolute path of a file
AbsolutePath(file) == RootDir \o <<file>>

\* path.relative(base, file)
relative(base, file) == IF base = RootDir THEN <<file>> ELSE <<"..", file>>

\* a glob pattern, as the paths it stands for: the files named, under dir
Glob(dir, names) == {dir \o <<n>> : n \in names}

\* the patterns of the import.meta.glob calls explored, each with its base
ImportGlobs ==
    { <<[base |-> RootDir, pattern |-> Glob(<<>>, {"a", "b"})]>>,     \* ./[ab].js
      <<[base |-> OtherDir, pattern |-> Glob(<<>>, {"c"})],           \* ./c.css
        [base |-> OtherDir, pattern |-> Glob(RootDir, {"a", "c"})]>>, \* /[ac].*
      <<[base |-> OtherDir, pattern |-> Glob(<<"..">>, {"b"})],       \* ../b.js
        [base |-> RootDir, pattern |-> Glob(<<>>, {"b"})]>> }         \* ./b.js

\* micromatch's isMatch(str, pattern)
isMatch(str, pattern) == str \in pattern

\* a plausible slip: only the absolute path is matched
MatchesGlob_AbsoluteOnly(file, glob) == isMatch(AbsolutePath(file), glob.pattern)

\* isMatch(file, pattern) || isMatch(path.relative(base, file), pattern)
MatchesGlob(file, glob) ==
    \/ isMatch(AbsolutePath(file), glob.pattern)
    \/ isMatch(relative(glob.base, file), glob.pattern)

\* whether one of the globs matches: the inner loop, which breaks at the
\* first match
MatchesAny(file, importGlobs) ==
    \E i \in 1..Len(importGlobs) : MatchesGlob(file, importGlobs[i])

\* file in server._globImporters
InGlobImporters(registry, file) ==
    \E i \in 1..Len(registry) : registry[i].key = file

\* delete server._globImporters[file]
DeleteGlobImporter(registry, file) ==
    SelectSeq(registry, LAMBDA e : e.key # file)

\* server._globImporters[file] = { module, importGlobs }: a key keeps its place
SetGlobImporter(registry, file, entry) ==
    IF InGlobImporters(registry, file)
    THEN [i \in 1..Len(registry) |->
             IF registry[i].key = file THEN entry ELSE registry[i]]
    ELSE Append(registry, entry)

\* ModuleGraph.invalidateModule(mod, seen): the fields of the nodes after it
invalidateModule(ns, mod) ==
    [ns EXCEPT ![mod].transformResult = None,
               ![mod].ssrTransformResult = None]

\* mods.forEach((mod) => this.invalidateModule(mod, seen))
RECURSIVE InvalidateModules(_, _)
InvalidateModules(ns, mods) ==
    IF mods = <<>> THEN ns
    ELSE InvalidateModules(invalidateModule(ns, Head(mods)), Tail(mods))

\* ModuleGraph.onFileChange(file)
onFileChange(G, file) ==
    IF file \in DOMAIN G.fileToModulesMap
    THEN InvalidateModules(G.nodes, G.fileToModulesMap[file])
    ELSE G.nodes

\* the loop of handleFileAddUnlink over the registry; st is [modules, nodes,
\* invalidated], invalidated the files passed to onFileChange
RECURSIVE GlobImportersLoop(_, _, _)
GlobImportersLoop(st, registry, file) ==
    IF registry = <<>> THEN st
    ELSE LET e == Head(registry)
             moduleFile == TheValue(st.nodes[e.module].file)
             st1 == IF MatchesAny(file, e.importGlobs)
                    THEN [ modules |-> Append(st.modules, e.module),
                           nodes |-> onFileChange([Graph EXCEPT !.nodes = st.nodes],
                                                  moduleFile),
                           invalidated |-> Append(st.invalidated, moduleFile) ]
                    ELSE st
         IN GlobImportersLoop(st1, Tail(registry), file)

\* the transform of a module that calls import.meta.glob: import analysis
\* records the module and its globs under the module's file
ImportGlob(mod, importGlobs) ==
    /\ hmr = NoEvent
    /\ ~InGlobImporters(globImporters, TheValue(nodes[mod].file))
    /\ globImporters' =
           SetGlobImporter(globImporters, TheValue(nodes[mod].file),
                           [key |-> TheValue(nodes[mod].file), module |-> mod,
                            importGlobs |-> importGlobs])
    /\ UNCHANGED <<graphVars, nCalls, last, hmrVars, reqVars, disk, lexer, mw,
                   client, fetch, plugins, ensure, stamps, optimizer, lastVars>>

\* handleFileAddUnlink(file, server, isUnlink), with the value Date.now()
\* returns
HandleFileAddUnlink(file, isUnlink, timestamp) ==
    /\ nEvents < MaxEvents
    /\ nEvents' = nEvents + 1
    /\ clock' = timestamp
    /\ ~Walking
    /\ LET mods == IF file \in DOMAIN fileToModulesMap
                   THEN fileToModulesMap[file] ELSE <<>>
           start == [modules |-> mods, nodes |-> nodes, invalidated |-> <<>>]
           deleted == isUnlink /\ InGlobImporters(globImporters, file)
           st == IF deleted THEN start
                 ELSE GlobImportersLoop(start, globImporters, file)
           r == IF Len(st.modules) > 0
                THEN updateModules(st.nodes, st.modules, timestamp)
                ELSE [nodes |-> st.nodes, sent |-> <<>>]
       IN /\ globImporters' = IF deleted
                              THEN DeleteGlobImporter(globImporters, file)
                              ELSE globImporters
          /\ nodes' = r.nodes
          /\ ws' = r.sent
          /\ hmr' = [ outcome |-> "addUnlink", file |-> file,
                      isUnlink |-> isUnlink,
                      registry |-> globImporters,
                      modules |-> st.modules,
                      invalidated |-> st.invalidated,
                      updated |-> Len(st.modules) > 0,
                      timestamp |-> timestamp,
                      cachedBefore |-> Cached(nodes) ]
    /\ last' = NoOp
    /\ UNCHANGED <<urlToModuleMap, idToModuleMap, fileToModulesMap, nCalls,
                   nTransforms, walk, reqVars, disk, lexer, mw, client, fetch,
                   plugins, ensure, stamps, optimizer, lastVars>>

\* the modules transformed under SpecGlob import nothing
NextGlob ==
    \/ \E rawUrl \in HmrUrls : \E isSelfAccepting \in BOOLEAN :
          /\ globImporters = <<>>
          /\ TransformModule(rawUrl, <<>>, <<>>, isSelfAccepting)
    \/ \E mod \in DOMAIN nodes : \E importGlobs \in ImportGlobs :
          ImportGlob(mod, importGlobs)
    \/ \E file \in Paths : \E isUnlink \in BOOLEAN :
       \E timestamp \in clock..MaxClock :
          HandleFileAddUnlink(file, isUnlink, timestamp)

SpecGlob == Init /\ [][NextGlob]_vars

(***************************************************************************)
(* ModuleGraph.invalidateAll.  The resolver is the caller's: it can give   *)
(* one id to two urls, as for a file requested by its path under the root  *)
(* and by its path in the file system.                                     *)
(***************************************************************************)
\* /@fs/root/a.js: the file of /a.js by its file system path; resolveId
\* gives it the id of /a.js
FsUrl ==
    [p |-> "a", ext |-> TRUE, direct |-> FALSE, imp |-> FALSE, t |-> FALSE,
     fs |-> TRUE]

\* the urls requested under SpecInvalidate
InvalidateUrls == HmrUrls \cup {FsUrl}

\* a plausible slip: the nodes are left as they are
InvalidateEach_None(ns, mods) == ns

\* this.idToModuleMap.forEach((mod) => this.invalidateModule(mod, seen))
InvalidateEach(ns, mods) == InvalidateModules(ns, mods)

\* ModuleGraph.invalidateAll()
InvalidateAll ==
    /\ last.op # "invalidateAll"
    /\ nodes' = InvalidateEach(nodes,
                    SetToSeq({idToModuleMap[id] : id \in DOMAIN idToModuleMap}))
    /\ last' = [op |-> "invalidateAll", G |-> Graph]
    /\ UNCHANGED <<urlToModuleMap, idToModuleMap, fileToModulesMap, nCalls,
                   hmrVars, reqVars, disk, lexer, mw, client, auxVars>>

NextInvalidate ==
    \/ \E rawUrl \in InvalidateUrls : \E isSelfAccepting \in BOOLEAN :
          TransformModule(rawUrl, <<>>, <<>>, isSelfAccepting)
    \/ \E rawUrl \in InvalidateUrls : EnsureEntryFromUrl(rawUrl)
    \/ InvalidateAll

SpecInvalidate == Init /\ [][NextInvalidate]_vars

(***************************************************************************)
(* Concurrent calls of ensureEntryFromUrl: a call waits for resolveUrl,    *)
(* then runs to its return without another await.                          *)
(***************************************************************************)
MaxEnsure == 3

\* the raw urls of the calls: /a, /a.js?t=1, /b.js?t=1, /c.css?import and
\* /@fs/root/a.js
EnsureUrls ==
    {u \in ImportUrls : TRUE} \cup {Url("a", TRUE, FALSE, FALSE, TRUE), FsUrl}

\* a plausible slip: the node is looked up before the await, not after it
Found_AtCall(atCall, atResume) == atCall

\* let mod = this.urlToModuleMap.get(url), behind the await: whether the
\* url had a node when the call was made does not count
Found(atCall, atResume) == atResume

\* how many nodes were created for url
Creations(created, url) == Len(SelectSeq(created, LAMBDA u : u = url))

\* ensureEntryFromUrl(rawUrl) up to its await
CallEnsureEntry(rawUrl) ==
    /\ Len(ensure.calls) < MaxEnsure
    /\ ensure' = [ensure EXCEPT
           !.calls = Append(@, [ rawUrl |-> rawUrl, stage |-> "resolveUrl",
                                 atCall |-> resolveUrl(rawUrl)[1]
                                                \in DOMAIN urlToModuleMap,
                                 created |-> FALSE, mod |-> {} ]),
           !.last = 0]
    /\ UNCHANGED <<graphVars, nCalls, last, hmrVars, reqVars, disk, lexer, mw,
                   client, fetch, plugins, globImporters, stamps, optimizer, lastVars>>

\* the rest of the call, from the await to the return: the node returned
\* is named by its url and by the number of nodes created for that url
ResumeEnsureEntry(i) ==
    /\ ensure.calls[i].stage = "resolveUrl"
    /\ LET call == ensure.calls[i]
           url == resolveUrl(call.rawUrl)[1]
           found == Found(call.atCall, url \in DOMAIN urlToModuleMap)
           r == ensureEntryFromUrl(
                    [Graph EXCEPT !.urlToModuleMap =
                        [u \in DOMAIN urlToModuleMap \ {url} |-> urlToModuleMap[u]]],
                    call.rawUrl)
           created == IF found THEN ensure.created
                      ELSE Append(ensure.created, url)
       IN /\ IF found THEN UNCHANGED graphVars ELSE SetGraph(r.G)
          /\ ensure' = [ensure EXCEPT
                 !.calls[i].stage = "returned",
                 !.calls[i].created = ~found,
                 !.calls[i].mod = {<<url, Creations(created, url)>>},
                 !.created = created,
                 !.last = i]
    /\ last' = [op |-> "ensureEntryFromUrl", mod |-> resolveUrl(ensure.calls[i].rawUrl)[1]]
    /\ UNCHANGED <<nCalls, hmrVars, reqVars, disk, lexer, mw, client, fetch,
                   plugins, globImporters, stamps, optimizer, lastVars>>

NextEnsure ==
    \/ \E rawUrl \in EnsureUrls : CallEnsureEntry(rawUrl)
    \/ \E i \in 1..Len(ensure.calls) : ResumeEnsureEntry(i)

SpecEnsure == Init /\ [][NextEnsure]_vars

(***************************************************************************)
(* The handlers that stamp lastHMRTimestamp, interleaved: handleHMRUpdate  *)
(* reads Date.now(), then awaits the handleHotUpdate hook of each plugin   *)
(* before it calls updateModules; handleFileAddUnlink and                  *)
(* handlePrunedModules have no await.                                      *)
(***************************************************************************)
MaxHandlers == 3

\* the largest value Date.now() returns
MaxNow == 2

\* the urls and the files of the modules stamped: /a and /b.js?t=1
StampUrls == {u \in ImportUrls : u.p \in {"a", "b"}}
StampFiles == {"a", "b"}

\* a plausible slip: the pruned modules keep their timestamp
PrunedTimestamp_Kept(old, t) == old

\* mod.lastHMRTimestamp = t
PrunedTimestamp(old, t) == t

\* mods.forEach((mod) => { mod.lastHMRTimestamp = t })
StampPruned(ns, mods, t) ==
    [n \in DOMAIN ns |->
        IF n \in mods
        THEN [ns[n] EXCEPT !.lastHMRTimestamp = PrunedTimestamp(@, t)]
        ELSE ns[n]]

PrunePayload(paths) == [type |-> "prune", path |-> None, updates |-> paths]

\* handlePrunedModules(mods, server), with the value Date.now() returns
HandlePrunedModules(mods, t) ==
    /\ stamps.handled < MaxHandlers
    /\ clock' = t
    /\ nodes' = StampPruned(nodes, mods, t)
    /\ ws' = <<PrunePayload(SetToSeq({nodes[m].url : m \in mods}))>>
    /\ stamps' = [stamps EXCEPT !.handled = @ + 1]
    /\ UNCHANGED <<urlToModuleMap, idToModuleMap, fileToModulesMap, nCalls,
                   last, hmr, nTransforms, nEvents, walk, reqVars, disk, lexer,
                   mw, client, fetch, plugins, globImporters, ensure, optimizer, lastVars>>

\* handleHMRUpdate(file, server) up to the await of the first hook: the
\* modules of the file and Date.now() are read
BeginHMRUpdate(file, timestamp) ==
    /\ stamps.handled < MaxHandlers
    /\ clock' = timestamp
    /\ stamps' = [ inflight |-> Append(stamps.inflight,
                       [ file |-> file, timestamp |-> timestamp,
                         modules |-> IF file \in DOMAIN fileToModulesMap
                                     THEN fileToModulesMap[file] ELSE <<>> ]),
                   handled |-> stamps.handled + 1 ]
    /\ UNCHANGED <<graphVars, nCalls, last, ws, hmr, nTransforms, nEvents, walk,
                   reqVars, disk, lexer, mw, client, fetch, plugins,
                   globImporters, ensure, optimizer, lastVars>>

\* the rest of the call, once the hooks returned hookResults
FinishHMRUpdate(i, hookResults) ==
    LET call == stamps.inflight[i]
        modules == PluginLoop(call.modules, hookResults)
        r == IF Len(modules) = 0 THEN [nodes |-> nodes, sent |-> <<>>]
             ELSE updateModules(nodes, modules, call.timestamp)
    IN  /\ nodes' = r.nodes
        /\ ws' = r.sent
        /\ stamps' = [stamps EXCEPT
               !.inflight = SubSeq(@, 1, i - 1) \o SubSeq(@, i + 1, Len(@))]
        /\ UNCHANGED <<urlToModuleMap, idToModuleMap, fileToModulesMap, nCalls,
                       last, clock, hmr, nTransforms, nEvents, walk, reqVars,
                       disk, lexer, mw, client, fetch, plugins, globImporters,
                       ensure, optimizer, lastVars>>

\* the sets of modules import analysis finds pruned
PrunedSets == {mods \in SUBSET DOMAIN nodes : Cardinality(mods) \in {1, 2}}

NextStamps ==
    \/ \E rawUrl \in StampUrls : stamps = NoStamps /\ EnsureEntryFromUrl(rawUrl)
    \/ \E file \in StampFiles : \E timestamp \in clock..MaxNow :
          BeginHMRUpdate(file, timestamp)
    \/ \E i \in 1..Len(stamps.inflight) :
       \E hookResults \in {<<None>>, <<Some(<<>>)>>} :
          FinishHMRUpdate(i, hookResults)
    \/ \E mods \in PrunedSets : \E t \in clock..MaxNow :
          HandlePrunedModules(mods, t)
    \/ \E file \in StampFiles : \E isUnlink \in BOOLEAN :
       \E timestamp \in clock..MaxNow :
          /\ stamps.handled < MaxHandlers
          /\ HandleFileAddUnlink(file, isUnlink, timestamp)

SpecStamps == Init /\ [][NextStamps]_vars

(***************************************************************************)
(* The dependency optimizer: optimizeDeps, with the scan it runs.  The     *)
(* cache directory is absent or holds _metadata.json, package.json and     *)
(* the bundles.  A Record<string, string> is a sequence of [id, value]     *)
(* in the order of insertion.                                              *)
(***************************************************************************)
MaxRuns == 2

\* the events the scan plugin's onResolve of bare imports handles in a scan
MaxScan == 2

RecordHas(rec, id) == \E i \in 1..Len(rec) : rec[i].id = id

RecordGet(rec, id) == rec[CHOOSE i \in 1..Len(rec) : rec[i].id = id].value

\* rec[id] = value
RecordPut(rec, id, value) ==
    IF RecordHas(rec, id)
    THEN [i \in 1..Len(rec) |->
             IF rec[i].id = id THEN [id |-> id, value |-> value] ELSE rec[i]]
    ELSE Append(rec, [id |-> id, value |-> value])

\* Object.keys(rec)
ObjectKeys(rec) == [i \in 1..Len(rec) |-> rec[i].id]

\* the onResolve of bare imports in esbuildScanPlugin, for an import that is
\* not excluded and resolves, if it does, to an optimizable entry under
\* node_modules; st is [deps, missing]
ScanResolve(st, e) ==
    IF RecordHas(st.deps, e.id) THEN st
    ELSE IF e.resolved # None
    THEN [st EXCEPT !.deps = RecordPut(@, e.id, TheValue(e.resolved))]
    ELSE [st EXCEPT !.missing = RecordPut(@, e.id, e.importer)]

RECURSIVE ScanLoop(_, _)
ScanLoop(st, events) ==
    IF events = <<>> THEN st
    ELSE ScanLoop(ScanResolve(st, Head(events)), Tail(events))

\* scanImports(config): what it returns for the bare imports esbuild meets
scanImports(events) == ScanLoop([deps |-> <<>>, missing |-> <<>>], events)

\* the cache directory after emptyDir or mkdirSync
EmptyDir == [metadata |-> None, marker |-> FALSE, bundles |-> {}]

\* a plausible slip: the hash is never found consistent
HashIsConsistent_Never(prevData, hash) == FALSE

\* prevData && prevData.hash === data.hash
HashIsConsistent(prevData, hash) ==
    prevData # None /\ TheValue(prevData).hash = hash

\* a plausible slip: the missing imports are let through
HasMissing_Never(missingIds) == FALSE

\* missingIds.length
HasMissing(missingIds) == Len(missingIds) > 0

\* the error of the missing imports: every id with its importer
MissingError(missing) ==
    [kind |-> "missing",
     list |-> [i \in 1..Len(missing) |-> <<missing[i].id, missing[i].value>>]]

\* createHash('sha256').update(data.hash + JSON.stringify(deps))
BrowserHash(hash, deps) == <<"sha256", hash, deps>>

\* the loop over optimizeDeps.include: [deps, failed], failed the id that
\* does not resolve
RECURSIVE IncludeLoop(_, _)
IncludeLoop(deps, include) ==
    IF include = <<>> THEN [deps |-> deps, failed |-> None]
    ELSE LET inc == Head(include) IN
         IF RecordHas(deps, inc.id) THEN IncludeLoop(deps, Tail(include))
         ELSE IF inc.entry # None
         THEN IncludeLoop(RecordPut(deps, inc.id, TheValue(inc.entry)),
                          Tail(include))
         ELSE [deps |-> deps, failed |-> Some(inc.id)]

\* what a run gives: the directory it leaves, what it returns or throws,
\* its effects in order and what the scan reported
RunResult(dir, outcome, value, effects, missing) ==
    [cacheDir |-> dir, outcome |-> outcome, value |-> value,
     effects |-> effects, missing |-> missing]

\* optimizeDeps(config, force, asCommand, newDeps): hash is the main hash,
\* scan the outcome of the scan, include the forced includes with what
\* each resolves to, buildOk whether esbuild's build succeeds
optimizeDeps(dir, force, hash, newDeps, scan, include, buildOk) ==
    LET data == [hash |-> hash, browserHash |-> <<hash>>, optimized |-> <<>>]
        prevData == IF dir = None THEN None ELSE TheValue(dir).metadata
    IN
    IF ~force /\ HashIsConsistent(prevData, hash)
    THEN RunResult(dir, "return", TheValue(prevData), <<>>, <<>>)
    ELSE
    LET e1 == <<IF dir # None THEN "emptyDir" ELSE "mkdir", "writeMarker">>
        d1 == [EmptyDir EXCEPT !.marker = TRUE]
    IN
    IF newDeps = None /\ scan.kind = "throw"
    THEN RunResult(Some(d1), "throw", [kind |-> "scan"], Append(e1, "scan"), <<>>)
    ELSE
    LET scanned == IF newDeps = None THEN scanImports(scan.events)
                   ELSE [deps |-> TheValue(newDeps), missing |-> <<>>]
        e2 == IF newDeps = None THEN Append(e1, "scan") ELSE e1
        data2 == [data EXCEPT !.browserHash = BrowserHash(hash, scanned.deps)]
        missingIds == ObjectKeys(scanned.missing)
    IN
    IF HasMissing(missingIds)
    THEN RunResult(Some(d1), "throw", MissingError(scanned.missing), e2,
                   scanned.missing)
    ELSE
    LET inc == IF include = None THEN [deps |-> scanned.deps, failed |-> None]
               ELSE IncludeLoop(scanned.deps, TheValue(include))
    IN
    IF inc.failed # None
    THEN RunResult(Some(d1), "throw",
                   [kind |-> "include", id |-> TheValue(inc.failed)], e2,
                   scanned.missing)
    ELSE IF Len(ObjectKeys(inc.deps)) = 0
    THEN RunResult(Some([d1 EXCEPT !.metadata = Some(data2)]), "return", data2,
                   Append(e2, "writeMetadata"), scanned.missing)
    ELSE IF ~buildOk
    THEN RunResult(Some(d1), "throw", [kind |-> "build"], Append(e2, "build"),
                   scanned.missing)
    ELSE
    LET data3 == [data2 EXCEPT !.optimized = inc.deps]
    IN RunResult(Some([d1 EXCEPT !.metadata = Some(data3),
                                 !.bundles = Range(ObjectKeys(inc.deps))]),
                 "return", data3, e2 \o <<"build", "writeMetadata">>,
                 scanned.missing)

\* the inputs of the runs explored
Hashes == {"h1", "h2"}
DepIds == {"vue", "lodash"}
\* the importer of the i-th bare import of a scan
ImporterAt(i) == IF i = 1 THEN "/main.js" ELSE "/util.js"
EntryOf(id) == <<"/node_modules", id, "index.js">>

\* what esbuild hands to onResolve for a bare import, with what it resolves to
ScanEvent(id, importer, resolves) ==
    [id |-> id, importer |-> importer,
     resolved |-> IF resolves THEN Some(EntryOf(id)) ELSE None]

\* a run of optimizeDeps
OptimizeDeps(force, hash, newDeps, scan, include, buildOk) ==
    /\ optimizer.runs < MaxRuns
    /\ LET r == optimizeDeps(optimizer.cacheDir, force, hash, newDeps, scan,
                             include, buildOk)
       IN optimizer' =
              [ cacheDir |-> r.cacheDir,
                runs |-> optimizer.runs + 1,
                run |-> [ outcome |-> r.outcome, value |-> r.value,
                          effects |-> r.effects, missing |-> r.missing,
                          force |-> force, hash |-> hash,
                          before |-> optimizer.cacheDir ] ]
    /\ UNCHANGED <<graphVars, nCalls, last, hmrVars, reqVars, disk, lexer, mw,
                   client, fetch, plugins, globImporters, ensure, stamps,
                   lastVars>>

\* the scans explored: the sequences of up to MaxScan bare imports
Scans ==
    UNION {{[kind |-> "ok",
             events |-> [i \in 1..n |->
                            ScanEvent(ids[i], ImporterAt(i), resolves[i])]] :
            ids \in [1..n -> DepIds], resolves \in [1..n -> BOOLEAN]} :
           n \in 0..MaxScan}

\* the forced includes explored, each with what it resolves to
ForcedIncludes ==
    {None, Some(<<[id |-> "lodash", entry |-> None]>>),
     Some(<<[id |-> "lodash", entry |-> Some(EntryOf("lodash"))]>>)}

\* whether a run with this scan gets to the forced includes and the bundler
GetsToIncludes(scan) == scanImports(scan.events).missing = <<>>

\* the forced includes and the outcome of the bundler are drawn for the
\* runs that get to them
NextOptimizer ==
    \E force \in BOOLEAN : \E hash \in Hashes :
       \/ OptimizeDeps(force, hash, None, [kind |-> "throw", events |-> <<>>],
                       None, TRUE)
       \/ \E scan \in Scans :
          \E include \in (IF GetsToIncludes(scan) THEN ForcedIncludes ELSE {None}) :
          \E buildOk \in (IF GetsToIncludes(scan) THEN BOOLEAN ELSE {TRUE}) :
             OptimizeDeps(force, hash, None, scan, include, buildOk)
       \/ \E newDeps \in {<<[id |-> "vue", value |-> EntryOf("vue")]>>} :
          \E include \in ForcedIncludes : \E buildOk \in BOOLEAN :
             OptimizeDeps(force, hash, Some(newDeps),
                          [kind |-> "ok", events |-> <<>>], include, buildOk)

SpecOptimizer == Init /\ [][NextOptimizer]_vars

(***************************************************************************)
(* The client's hot contexts: createHotContext, hot.accept and hot.on.  A  *)
(* listener is a function object, known to the code by its identity fn;    *)
(* the context it was registered through is kept beside it.  A context is  *)
(* named by its place in hot.contexts, and ctxToListenersMap maps an owner *)
(* to the context whose newListeners map it holds.                         *)
(***************************************************************************)
MaxContexts == 3
MaxOn == 2
MaxAccept == 1

OwnerPaths == {"/a.js", "/b.js"}
CustomEvents == {"e1", "e2"}
ListenerFns == {"f", "g"}

\* map.get(key) || []
GetOrEmpty(map, key) == IF key \in DOMAIN map THEN map[key] ELSE <<>>

\* a plausible slip: the stale listeners stay in customListenersMap
FilterStale_Kept(listeners, staleFns) == listeners

\* listeners.filter((l) => !staleFns.includes(l))
FilterStale(listeners, staleFns) ==
    SelectSeq(listeners, LAMBDA l : l.fn \notin Range(staleFns))

\* the loop over staleListeners: customListenersMap after it
ClearStaleListeners(custom, staleListeners) ==
    [event \in DOMAIN custom |->
        IF event \in DOMAIN staleListeners
        THEN FilterStale(custom[event], staleListeners[event])
        ELSE custom[event]]

\* a plausible slip: the callbacks of the module are kept
ClearedCallbacks_Kept(old) == old

\* mod.callbacks = []
ClearedCallbacks(old) == <<>>

\* createHotContext(ownerPath)
CreateHotContext(ownerPath) ==
    /\ Len(hot.contexts) < MaxContexts
    /\ LET stale == IF ownerPath \in DOMAIN hot.ctxToListenersMap
                    THEN hot.contexts[hot.ctxToListenersMap[ownerPath]].newListeners
                    ELSE <<>>
       IN hot' =
           [ hotModulesMap |->
                 [o \in DOMAIN hot.hotModulesMap |->
                     IF o = ownerPath THEN ClearedCallbacks(hot.hotModulesMap[o])
                     ELSE hot.hotModulesMap[o]],
             customListenersMap |->
                 ClearStaleListeners(hot.customListenersMap, stale),
             contexts |-> Append(hot.contexts,
                                 [ownerPath |-> ownerPath, newListeners |-> <<>>]),
             ctxToListenersMap |->
                 MapSet(hot.ctxToListenersMap, ownerPath, Len(hot.contexts) + 1),
             last |-> [ op |-> "createHotContext", ownerPath |-> ownerPath,
                        hotModulesMap |-> hot.hotModulesMap,
                        customListenersMap |-> hot.customListenersMap,
                        previous |-> IF ownerPath \in DOMAIN hot.ctxToListenersMap
                                     THEN hot.ctxToListenersMap[ownerPath]
                                     ELSE 0 ] ]
    /\ UNCHANGED <<graphVars, nCalls, last, hmrVars, reqVars, disk, lexer, mw,
                   client, fetch, plugins, globImporters, ensure, stamps,
                   optimizer, tailVars>>

\* how many listeners were registered and how many callbacks accepted
Registered_On ==
    LET n[i \in 0..Len(hot.contexts)] ==
            IF i = 0 THEN 0
            ELSE n[i - 1] + LET m == hot.contexts[i].newListeners
                                    k[E \in SUBSET DOMAIN m] ==
                                        IF E = {} THEN 0
                                        ELSE LET e == CHOOSE e \in E : TRUE
                                             IN Len(m[e]) + k[E \ {e}]
                            IN k[DOMAIN m]
    IN n[Len(hot.contexts)]

\* hot.on(event, cb) of the context ctx
HotOn(ctx, event, cb) ==
    /\ Registered_On < MaxOn
    /\ hot' = [hot EXCEPT
           !.customListenersMap =
               MapSet(@, event, Append(GetOrEmpty(@, event),
                                       [fn |-> cb, ctx |-> ctx])),
           !.contexts[ctx].newListeners =
               MapSet(@, event, Append(GetOrEmpty(@, event), cb)),
           !.last = [op |-> "on"]]
    /\ UNCHANGED <<graphVars, nCalls, last, hmrVars, reqVars, disk, lexer, mw,
                   client, fetch, plugins, globImporters, ensure, stamps,
                   optimizer, tailVars>>

\* acceptDeps(deps, callback) of the context ctx, as hot.accept calls it
HotAccept(ctx, deps, callback) ==
    LET ownerPath == hot.contexts[ctx].ownerPath
        callbacks == GetOrEmpty(hot.hotModulesMap, ownerPath)
    IN  /\ Len(callbacks) < MaxAccept
        /\ hot' = [hot EXCEPT
               !.hotModulesMap =
                   MapSet(@, ownerPath,
                          Append(callbacks, [deps |-> deps, fn |-> callback])),
               !.last = [op |-> "accept"]]
        /\ UNCHANGED <<graphVars, nCalls, last, hmrVars, reqVars, disk, lexer,
                       mw, client, fetch, plugins, globImporters, ensure,
                       stamps, optimizer, tailVars>>

NextHot ==
    \/ \E ownerPath \in OwnerPaths : CreateHotContext(ownerPath)
    \/ \E ctx \in 1..Len(hot.contexts) : \E event \in CustomEvents :
       \E cb \in ListenerFns : HotOn(ctx, event, cb)
    \/ \E ctx \in 1..Len(hot.contexts) : \E callback \in ListenerFns :
          HotAccept(ctx, <<hot.contexts[ctx].ownerPath>>, callback)

(***************************************************************************)
(* ModuleGraph.onFileChange and the ssrModule of the nodes.  ssr.cache is  *)
(* the set of the nodes whose ssrModule is not null.                       *)
(***************************************************************************)
MaxFileChanges == 1
MaxSsrLoads == 2

\* a plausible slip: the importers of the module are not walked
SsrImporters_None(ns, mod) == <<>>

\* mod.importers, as invalidateSSRModule iterates it
SsrImporters(ns, mod) == ns[mod].importers

\* invalidateSSRModule(mod, seen); st is [nodes, cache, seen]
RECURSIVE invalidateSSRModule(_, _), InvalidateSSRImporters(_, _)
invalidateSSRModule(st, mod) ==
    IF mod \in st.seen THEN st
    ELSE InvalidateSSRImporters(
            [st EXCEPT !.seen = @ \cup {mod}, !.cache = @ \ {mod}],
            SsrImporters(st.nodes, mod))

\* mod.importers.forEach((importer) => invalidateSSRModule(importer, seen))
InvalidateSSRImporters(st, importers) ==
    IF importers = <<>> THEN st
    ELSE InvalidateSSRImporters(invalidateSSRModule(st, Head(importers)),
                                Tail(importers))

\* mods.forEach((mod) => this.invalidateModule(mod, seen)), with the seen
\* Set of onFileChange shared by the calls
RECURSIVE OnFileChangeLoop(_, _)
OnFileChangeLoop(st, mods) ==
    IF mods = <<>> THEN st
    ELSE OnFileChangeLoop(
            invalidateSSRModule(
                [st EXCEPT !.nodes = invalidateModule(@, Head(mods))],
                Head(mods)),
            Tail(mods))

\* ModuleGraph.onFileChange(file)
OnFileChange(file) ==
    /\ ssr.events < MaxFileChanges
    /\ ~Walking
    /\ LET st == IF file \in DOMAIN fileToModulesMap
                 THEN OnFileChangeLoop(
                          [nodes |-> nodes, cache |-> ssr.cache, seen |-> {}],
                          fileToModulesMap[file])
                 ELSE [nodes |-> nodes, cache |-> ssr.cache]
       IN /\ nodes' = st.nodes
          /\ ssr' = [cache |-> st.cache, events |-> ssr.events + 1,
                     file |-> file]
    /\ UNCHANGED <<urlToModuleMap, idToModuleMap, fileToModulesMap, nCalls,
                   last, hmrVars, reqVars, disk, lexer, mw, client, fetch,
                   plugins, globImporters, ensure, stamps, optimizer, hot, watcher, info>>

\* the SSR loader has instantiated the module of a node: mod.ssrModule is set
SsrLoadModule(mod) ==
    /\ ~Walking
    /\ Cardinality(ssr.cache) < MaxSsrLoads
    /\ mod \notin ssr.cache
    /\ ssr' = [ssr EXCEPT !.cache = @ \cup {mod}]
    /\ UNCHANGED <<graphVars, nCalls, last, hmrVars, reqVars, disk, lexer, mw,
                   client, fetch, plugins, globImporters, ensure, stamps,
                   optimizer, hot, watcher, info>>

\* handleHMRUpdate of a file event, no plugin hook: invalidate sets the
\* ssrModule of every node it visits to null (hmr.ts 341)
HandleHMRUpdateSsr(file, timestamp) ==
    /\ HandleHMRUpdate(file, <<>>, timestamp)
    /\ ssr' = [ssr EXCEPT !.cache =
                  IF hmr'.outcome = "updateModules"
                  THEN @ \ UpdateLoop([nodes |-> nodes, seen |-> {},
                                       needFullReload |-> FALSE,
                                       updates |-> <<>>],
                                      hmr'.modules, timestamp).seen
                  ELSE @]
    /\ UNCHANGED <<disk, lexer, mw, client, fetch, plugins, globImporters,
                   ensure, stamps, optimizer, hot, watcher, info>>

\* the urls requested under SpecSsr: /a, /b.js?t=1 and /@fs/root/a.js, which
\* has the file of /a
SsrUrls == {u \in HmrUrls : u.p \in {"a", "b"}} \cup {FsUrl}

\* the imported urls import analysis finds in a module under SpecSsr
SsrImportArgs(rawUrl) ==
    {SetToSeq({UrlItem(u) : u \in U}) :
        U \in SubsetsUpTo({u \in SsrUrls : resolveUrl(u)[1] # resolveUrl(rawUrl)[1]},
                          MaxImports)}

NextSsr ==
    \/ \E rawUrl \in SsrUrls :
       \E importedModules \in SsrImportArgs(rawUrl) :
          TransformModule(rawUrl, importedModules, <<>>, FALSE)
    \/ \E mod \in DOMAIN nodes : SsrLoadModule(mod)
    \/ \E file \in Paths : \E timestamp \in clock..MaxClock :
          HandleHMRUpdateSsr(file, timestamp)
    \/ \E file \in Paths : OnFileChange(file)

SpecSsr == Init /\ [][NextSsr]_vars


SpecHot == Init /\ [][NextHot]_vars

(***************************************************************************)
(* updateModuleInfo call by call: a call runs to its next await of         *)
(* ensureEntryFromUrl, and other calls run while it waits.  The Sets of    *)
(* imported modules are objects: info.sets holds their members,            *)
(* info.current[mod] is the one mod.importedModules points to, and a call  *)
(* keeps the two it holds, prevImports and nextImports.                    *)
(***************************************************************************)
MaxInfoCalls == 2

\* the urls of the import lists under SpecInfo: /a, /b.js?t=1
InfoUrls == {u \in ImportUrls : u.p \in {"a", "b"}}

\* the modules updateModuleInfo is called for under SpecInfo: /c.css
InfoMods == {resolveUrl(u)[1] : u \in ImportUrls \ InfoUrls}

\* the nodes as the loop over prevImports tests them: !nextImports.has(dep)
PruneTest(ns, mod, nextImports) ==
    [ns EXCEPT ![mod].importedModules = nextImports]

\* prevImports.forEach(...) and mod.acceptedHmrDeps = new Set(), by a call
\* that holds prevImports and nextImports, while mod.importedModules is the
\* Set current
FinishUpdate(ns, mod, prevImports, nextImports, current) ==
    LET pruned == PruneLoop(PruneTest(ns, mod, nextImports), mod, prevImports,
                            None)
    IN [pruned.nodes EXCEPT ![mod].importedModules = current,
                            ![mod].acceptedHmrDeps = NewAcceptedHmrDeps(@)]

\* updateModuleInfo(mod, importedModules, new Set(), isSelfAccepting) up to
\* its first await
BeginUpdateModuleInfo(mod, importedModules, isSelfAccepting) ==
    /\ Len(info.calls) < MaxInfoCalls
    /\ mod \in DOMAIN nodes
    /\ LET known == mod \in DOMAIN info.current
           sets1 == IF known THEN info.sets
                    ELSE Append(info.sets, nodes[mod].importedModules)
           prev == IF known THEN info.current[mod] ELSE Len(sets1)
           next == Len(sets1) + 1
           sets2 == Append(sets1, {})
           n1 == [nodes EXCEPT ![mod].isSelfAccepting = isSelfAccepting,
                               ![mod].importedModules = NewImportedModules(@)]
           waits == importedModules # <<>>
       IN /\ nodes' = IF waits THEN n1
                      ELSE FinishUpdate(n1, mod, sets2[prev], sets2[next],
                                        sets2[next])
          /\ info' = [ calls |-> Append(info.calls,
                                     [ mod |-> mod, items |-> importedModules,
                                       prev |-> prev, next |-> next,
                                       pc |-> IF waits THEN "import"
                                              ELSE "done" ]),
                       sets |-> sets2,
                       current |-> MapSet(info.current, mod, next) ]
    /\ last' = NoOp
    /\ UNCHANGED <<urlToModuleMap, idToModuleMap, fileToModulesMap, nCalls,
                   hmrVars, reqVars, disk, lexer, mw, client, fetch, plugins,
                   globImporters, ensure, stamps, optimizer, hot, ssr, watcher>>

\* the call i after await this.ensureEntryFromUrl(imported): the dep gets
\* its importer and joins nextImports; then the next await, or the end
ResumeUpdateModuleInfo(i) ==
    /\ info.calls[i].pc = "import"
    /\ LET c == info.calls[i]
           e == ensureEntryFromUrl(Graph, Head(c.items))
           dep == e.mod
           sets1 == [info.sets EXCEPT ![c.next] = @ \cup {dep}]
           current == sets1[info.current[c.mod]]
           n1 == [e.G.nodes EXCEPT ![dep].importers = AddImporter(@, c.mod)]
           n2 == [n1 EXCEPT ![c.mod].importedModules = current]
           waits == Tail(c.items) # <<>>
       IN /\ SetGraph([e.G EXCEPT !.nodes =
                          IF waits THEN n2
                          ELSE FinishUpdate(n2, c.mod, sets1[c.prev],
                                            sets1[c.next], current)])
          /\ info' = [info EXCEPT
                         !.sets = sets1,
                         !.calls[i] = [c EXCEPT !.items = Tail(c.items),
                                                !.pc = IF waits THEN "import"
                                                       ELSE "done"]]
    /\ last' = NoOp
    /\ UNCHANGED <<nCalls, hmrVars, reqVars, disk, lexer, mw, client, fetch,
                   plugins, globImporters, ensure, stamps, optimizer, hot, ssr,
                   watcher>>

NextInfo ==
    \/ \E rawUrl \in ImportUrls \ InfoUrls : EnsureEntryFromUrl(rawUrl)
    \/ \E mod \in InfoMods :
       \E importedModules \in
              {SetToSeq(U) : U \in SUBSET InfoUrls} :
       \E isSelfAccepting \in BOOLEAN :
          BeginUpdateModuleInfo(mod, importedModules, isSelfAccepting)
    \/ \E i \in 1..Len(info.calls) : ResumeUpdateModuleInfo(i)

SpecInfo == Init /\ [][NextInfo]_vars

(***************************************************************************)
(* propagateUpdate on one graph with the importers of the nodes iterated   *)
(* in two orders.  node.importers is a Set: it is iterated in the order in *)
(* which the importers were added, the order of their updateModuleInfo     *)
(* calls.                                                                  *)
(***************************************************************************)
Reverse(seq) == [i \in 1..Len(seq) |-> seq[Len(seq) + 1 - i]]

\* the graph built by the same calls made in the opposite order: every Set
\* of importers has its members in the opposite order
ReverseImporters(ns) ==
    [n \in DOMAIN ns |-> [ns[n] EXCEPT !.importers = Reverse(@)]]

\* boundaries = new Set(); hasDeadEnd = propagateUpdate(mod, boundaries), as
\* updateModules calls it, on the graph and on the graph built in the
\* opposite order
PropagateUpdate(mod) ==
    /\ last.op # "propagateUpdate"
    /\ last' = [ op |-> "propagateUpdate", mod |-> mod,
                 result |-> propagateUpdate(nodes, mod, <<>>, <<mod>>),
                 reversed |-> propagateUpdate(ReverseImporters(nodes), mod,
                                              <<>>, <<mod>>) ]
    /\ UNCHANGED <<graphVars, nCalls, hmrVars, reqVars, disk, lexer, mw, client,
                   auxVars>>

\* the graph is built by the calls of Spec, none of them accepting a dep;
\* the walk is the last step
NextOrder ==
    \/ /\ last.op # "propagateUpdate"
       /\ \E rawUrl \in ImportUrls : EnsureEntryFromUrl(rawUrl)
    \/ /\ last.op # "propagateUpdate"
       /\ \E mod \in DOMAIN nodes :
          \E importedModules \in ImportArgs :
          \E isSelfAccepting \in BOOLEAN :
             UpdateModuleInfo(mod, importedModules, <<>>, isSelfAccepting)
    \/ \E mod \in DOMAIN nodes : PropagateUpdate(mod)

SpecOrder == Init /\ [][NextOrder]_vars

(***************************************************************************)
(* Transform requests as actions: a call of transformRequest, then the     *)
(* computation from one await to the next.                                 *)
(***************************************************************************)
\* transformRequest(url, server, options)
TransformRequest(url, options) ==
    /\ LET cacheKey == CacheKey(url, options)
           request == PendingRequest(pendingRequests, cacheKey)
       IN IF request = None
          THEN /\ Len(requests) < MaxRequests
               /\ requests' = Append(requests, Request(cacheKey, url, options))
               /\ pendingRequests' = MapSet(pendingRequests, cacheKey, Len(requests) + 1)
               /\ lastCall' = [ op |-> "transformRequest", cacheKey |-> cacheKey,
                                inFlight |-> None, returned |-> Len(requests) + 1,
                                computations |-> Len(requests) ]
          ELSE /\ lastCall' = [ op |-> "transformRequest", cacheKey |-> cacheKey,
                                inFlight |-> {pendingRequests[cacheKey]},
                                returned |-> TheValue(request),
                                computations |-> Len(requests) ]
               /\ UNCHANGED <<requests, pendingRequests>>
    /\ UNCHANGED <<graphVars, nCalls, last, hmrVars, disk, lexer, mw, client, auxVars>>

\* doTransform after await moduleGraph.getModuleByUrl(url): the cached
\* result is returned, or the computation goes on to resolveId and load
GetModule(i) ==
    /\ requests[i].pc = "getModule"
    /\ LET req == requests[i]
           url == resolveUrl(req.url)[1]
           cached == IF url \in DOMAIN urlToModuleMap
                     THEN CachedResult(nodes[urlToModuleMap[url]], req.options)
                     ELSE None
       IN requests' = [requests EXCEPT ![i] =
              IF cached # None THEN Settled(req, "resolved", cached)
              ELSE [req EXCEPT !.pc = "load"]]
    /\ lastCall' = NoCall
    /\ UNCHANGED <<graphVars, nCalls, last, hmrVars, pendingRequests, disk, lexer, mw, client, auxVars>>

\* a plausible slip: the url is not checked against the public directory
NoCode_Null(req, isPublic) == Settled(req, "resolved", None)

\* doTransform without code: an html request for an id that is not an html
\* file returns null before the file is read; otherwise code == null throws
\* when checkPublicFile(url, config) and returns null when not
NoCode(req, isPublic) ==
    IF req.options = "html" THEN Settled(req, "resolved", None)
    ELSE IF isPublic THEN Settled(req, "rejected", None)
    ELSE Settled(req, "resolved", None)

\* doTransform after await pluginContainer.load(id) and the fs fallback:
\* loaded says whether there is code, failed whether a read threw,
\* isPublic is checkPublicFile(url, config)
Load(i, loaded, failed, isPublic) ==
    /\ requests[i].pc = "load"
    /\ LET req == requests[i]
       IN requests' = [requests EXCEPT ![i] =
              IF failed THEN Settled(req, "rejected", None)
              ELSE IF loaded
              THEN [req EXCEPT !.pc = "ensureEntry",
                               !.code = Some(ReadFile(disk, cleanUrl(resolveId(req.url))))]
              ELSE NoCode(req, isPublic)]
    /\ lastCall' = [ op |-> "load", request |-> i, loaded |-> loaded,
                     failed |-> failed, isPublic |-> isPublic ]
    /\ UNCHANGED <<graphVars, nCalls, last, hmrVars, pendingRequests, disk, lexer, mw, client, auxVars>>

\* ensureWatchedFile(watcher, mod.file, root): the watcher is told of the
\* file of the module
ensureWatchedFile(w, file) == w \cup file

\* doTransform after await moduleGraph.ensureEntryFromUrl(url)
EnsureEntry(i) ==
    /\ requests[i].pc = "ensureEntry"
    /\ LET e == ensureEntryFromUrl(Graph, requests[i].url)
       IN /\ SetGraph(e.G)
          /\ watcher' = ensureWatchedFile(watcher, e.G.nodes[e.mod].file)
    /\ requests' = [requests EXCEPT ![i].pc = "transform"]
    /\ lastCall' = NoCall
    /\ UNCHANGED <<nCalls, last, hmrVars, pendingRequests, disk, lexer, mw, client,
                   fetch, plugins, globImporters, ensure, stamps, optimizer, hot,
                   ssr, info>>

\* doTransform after await pluginContainer.transform(code, id): a hook
\* threw, or the result is stored on the module and returned
Transform(i, threw) ==
    /\ requests[i].pc = "transform"
    /\ LET req == requests[i]
           mod == urlToModuleMap[resolveUrl(req.url)[1]]
           code == TheValue(req.code)
           result == Some([code |-> code, etag |-> getEtag(code)])
       IN IF threw
          THEN /\ requests' = [requests EXCEPT ![i] = Settled(req, "rejected", None)]
               /\ UNCHANGED nodes
          ELSE /\ requests' = [requests EXCEPT ![i] = Settled(req, "resolved", result)]
               /\ nodes' = IF req.options = "ssr"
                           THEN [nodes EXCEPT ![mod].ssrTransformResult = result]
                           ELSE [nodes EXCEPT ![mod].transformResult = result]
    /\ lastCall' = NoCall
    /\ UNCHANGED <<urlToModuleMap, idToModuleMap, fileToModulesMap, nCalls, last,
                   hmrVars, pendingRequests, disk, lexer, mw, client, auxVars>>

\* the reaction request.then(done, done) registered: the first one of the
\* promise, run when it has settled
Done(i) ==
    /\ requests[i].pc = "settled"
    /\ requests' = [requests EXCEPT ![i].pc = "done"]
    /\ pendingRequests' = IF RunsDone(requests[i].outcome)
                          THEN MapDelete(pendingRequests, requests[i].cacheKey)
                          ELSE pendingRequests
    /\ lastCall' = NoCall
    /\ UNCHANGED <<graphVars, nCalls, last, hmrVars, disk, lexer, mw, client, auxVars>>

NextTransform ==
    \/ \E url \in TransformUrls : \E options \in TransformOptions :
          TransformRequest(url, options)
    \/ \E i \in DOMAIN requests : GetModule(i)
    \/ \E i \in DOMAIN requests : \E loaded, failed, isPublic \in BOOLEAN :
          Load(i, loaded, failed, isPublic)
    \/ \E i \in DOMAIN requests : EnsureEntry(i)
    \/ \E i \in DOMAIN requests : \E threw \in BOOLEAN : Transform(i, threw)
    \/ \E i \in DOMAIN requests : Done(i)

SpecTransform == Init /\ [][NextTransform]_vars

\* a file is edited and the watcher's change event is handled, no plugin
\* having a handleHotUpdate hook
FileChange(file, timestamp) ==
    /\ disk' = [disk EXCEPT ![file] = @ + 1]
    /\ HandleHMRUpdate(file, <<>>, timestamp)
    /\ UNCHANGED <<lexer, mw, client, auxVars>>

\* transform requests without options, and edits of the files they load
NextStale ==
    \/ \E url \in TransformUrls : TransformRequest(url, "")
    \/ \E i \in DOMAIN requests : GetModule(i)
    \/ \E i \in DOMAIN requests : \E loaded, failed, isPublic \in BOOLEAN :
          Load(i, loaded, failed, isPublic)
    \/ \E i \in DOMAIN requests : EnsureEntry(i)
    \/ \E i \in DOMAIN requests : \E threw \in BOOLEAN : Transform(i, threw)
    \/ \E i \in DOMAIN requests : Done(i)
    \/ \E file \in {"a", "b"} : \E timestamp \in clock..MaxClock :
          FileChange(file, timestamp)

SpecStale == Init /\ [][NextStale]_vars

(***************************************************************************)
(* The lexer applied to the arguments of a call of import.meta.hot.accept. *)
(***************************************************************************)
InitLexer ==
    /\ InitServer
    /\ \E pre \in Prefixes :
        \/ \E form \in {"array"} : \E n \in 0..MaxDeps :
           \E lits \in [1..n -> Literals] : \E sp \in BOOLEAN :
              lexer = LexerInput(pre, ArgsText(HotAcceptArg(form, lits, sp, <<"x">>)),
                                 {HotAcceptArg(form, lits, sp, <<"x">>)})
        \/ \E form \in {"single"} : \E l \in Literals : \E sp \in BOOLEAN :
              lexer = LexerInput(pre, ArgsText(HotAcceptArg(form, <<l>>, sp, <<"x">>)),
                                 {HotAcceptArg(form, <<l>>, sp, <<"x">>)})
        \/ \E form \in {"callback", "expression"} : \E cb \in Callbacks :
           \E sp \in BOOLEAN :
              lexer = LexerInput(pre, ArgsText(HotAcceptArg(form, <<>>, sp, cb)),
                                 {HotAcceptArg(form, <<>>, sp, cb)})
        \/ \E form \in {"empty"} : \E sp \in BOOLEAN :
              lexer = LexerInput(pre, ArgsText(HotAcceptArg(form, <<>>, sp, <<>>)),
                                 {HotAcceptArg(form, <<>>, sp, <<>>)})
        \/ \E n \in 0..MaxRaw : \E code \in [1..n -> RawChars] :
              lexer = LexerInput(pre, code, {})

LexAcceptedHmrDeps ==
    /\ lexer.out = {}
    /\ lexer' = [lexer EXCEPT
                    !.out = {lexAcceptedHmrDeps(lexer.code, lexer.start)}]
    /\ UNCHANGED <<graphVars, nCalls, last, hmrVars, reqVars, disk, mw, client, auxVars>>

NextLexer == LexAcceptedHmrDeps

SpecLexer == InitLexer /\ [][NextLexer]_vars

(***************************************************************************)
(* Requests to the transform middleware while the optimizer publishes and  *)
(* resolves server._pendingReload.  A continuation of a settled promise    *)
(* and a timer that is due run before time goes on.                        *)
(***************************************************************************)
MaxHttp == 2
MaxReloads == 2
MaxTime == 1500
TickMs == 500

\* a request: what it asked, when, what it awaits and what was answered
HttpRequest(method, url) ==
    [method |-> method, url |-> url, arrived |-> mw.now,
     under |-> mw.pendingReload, awaits |-> {}, deadline |-> 0,
     stage |-> "received", statusCode |-> 200, writableEnded |-> FALSE,
     transformed |-> FALSE, nextCalled |-> FALSE]

\* return next()
CallNext(r) == [r EXCEPT !.stage = "done", !.nextCalled = TRUE]

\* the handler from the url's decoding on: the request is transformed and the
\* result is sent
Pipeline(r) ==
    [r EXCEPT !.stage = "done", !.transformed = TRUE, !.writableEnded = TRUE]

\* the request is held: Promise.race of server._pendingReload and a timer
Hold(r) ==
    [r EXCEPT !.stage = "waiting", !.awaits = mw.pendingReload,
              !.deadline = mw.now + NEW_DEPENDENCY_BUILD_TIMEOUT]

\* the catch of the race that was lost to the timer
Answer408(r) ==
    IF ~r.writableEnded
    THEN [r EXCEPT !.stage = "done", !.statusCode = 408, !.writableEnded = TRUE]
    ELSE [r EXCEPT !.stage = "done"]

SetMw(field, value) ==
    /\ mw' = [mw EXCEPT ![field] = value]
    /\ UNCHANGED <<graphVars, nCalls, last, hmrVars, reqVars, disk, lexer, client, auxVars>>

\* viteTransformMiddleware(req, res, next) up to its first await
Receive(method, url) ==
    /\ Len(mw.reqs) < MaxHttp
    /\ LET r == HttpRequest(method, url) IN
       SetMw("reqs", Append(mw.reqs,
            IF method # "GET" \/ url \in knownIgnoreList THEN CallNext(r)
            ELSE IF mw.pendingReload # {} /\ ~IsClientRequest(url) THEN Hold(r)
            ELSE Pipeline(r)))

\* the promise a request awaits
Awaited(r) == mw.promises[TheValue(r.awaits)]

Waiting(r) == r.stage = "waiting"

\* the race was won by server._pendingReload: the handler goes on
Resume(i) ==
    /\ i \in DOMAIN mw.reqs
    /\ Waiting(mw.reqs[i])
    /\ Awaited(mw.reqs[i]).state = "resolved"
    /\ SetMw("reqs", [mw.reqs EXCEPT ![i] = Pipeline(@)])

\* the timer of the race fired first: the race rejects
Timeout(i) ==
    /\ i \in DOMAIN mw.reqs
    /\ Waiting(mw.reqs[i])
    /\ Awaited(mw.reqs[i]).state = "pending"
    /\ mw.now >= mw.reqs[i].deadline
    /\ SetMw("reqs", [mw.reqs EXCEPT ![i] = Answer408(@)])

\* the optimizer starts a build for a newly discovered dep and publishes
\* server._pendingReload
PublishPendingReload ==
    /\ Len(mw.promises) < MaxReloads
    /\ mw' = [mw EXCEPT
                !.promises = Append(@, [state |-> "pending", at |-> mw.now]),
                !.pendingReload = {Len(mw.promises) + 1}]
    /\ UNCHANGED <<graphVars, nCalls, last, hmrVars, reqVars, disk, lexer, client, auxVars>>

\* the build is done: the optimizer resolves server._pendingReload and
\* clears it
ResolvePendingReload ==
    /\ mw.pendingReload # {}
    /\ mw' = [mw EXCEPT
                !.promises[TheValue(mw.pendingReload)] =
                    [state |-> "resolved", at |-> mw.now],
                !.pendingReload = {}]
    /\ UNCHANGED <<graphVars, nCalls, last, hmrVars, reqVars, disk, lexer, client, auxVars>>

\* what has to run before time goes on
Urgent(r) ==
    Waiting(r) /\ (Awaited(r).state = "resolved" \/ mw.now >= r.deadline)

Min(S) == CHOOSE k \in S : \A l \in S : k <= l

\* time goes on, up to the next timer
Tick ==
    /\ \A i \in DOMAIN mw.reqs : ~Urgent(mw.reqs[i])
    /\ LET d == Min({TickMs} \cup {mw.reqs[i].deadline - mw.now :
                        i \in {j \in DOMAIN mw.reqs : Waiting(mw.reqs[j])}})
       IN  /\ mw.now + d <= MaxTime
           /\ SetMw("now", mw.now + d)

NextMiddleware ==
    \/ \E req \in Requests : Receive(req[1], req[2])
    \/ \E i \in 1..MaxHttp : Resume(i)
    \/ \E i \in 1..MaxHttp : Timeout(i)
    \/ PublishPendingReload
    \/ ResolvePendingReload
    \/ Tick

SpecMiddleware == Init /\ [][NextMiddleware]_vars

(***************************************************************************)
(* Update messages at the client.  Whatever a promise's settling starts    *)
(* runs before the next message or the next settling.                      *)
(***************************************************************************)
MaxMessages == 2
MaxUpdates == 2
MaxPromises == 3

SetClient(c) ==
    /\ client' = c
    /\ UNCHANGED <<graphVars, nCalls, last, hmrVars, reqVars, disk, lexer, mw, auxVars>>

\* a flush is behind its await Promise.resolve()
Ticking(f) == f.stage = "tick"

\* every promise of the flush has settled
Loaded(f) ==
    f.stage = "all"
        /\ \A i \in DOMAIN f.loading : client.promises[f.loading[i]].state # "pending"

\* something runs before the next task
Microtasks ==
    \E i \in DOMAIN client.flushes :
        Ticking(client.flushes[i]) \/ Loaded(client.flushes[i])

\* handleMessage of an update payload with n js-updates: the forEach starts
HandleMessage(n) ==
    /\ client.nMessages < MaxMessages
    /\ Len(client.promises) + n <= MaxPromises
    /\ client.todo = 0
    /\ ~Microtasks
    /\ SetClient([client EXCEPT !.todo = n, !.nMessages = @ + 1])

\* queueUpdate(fetchUpdate(update)) up to its await; fetchUpdate has returned
\* at once (settled) or is fetching the module
QueueUpdate(settled) ==
    /\ client.todo > 0
    /\ LET p == Len(client.promises) + 1
           c == [client EXCEPT
                    !.todo = @ - 1,
                    !.promises = Append(@,
                        [state |-> IF settled THEN "undefined" ELSE "pending",
                         payload |-> client.nMessages]),
                    !.queued = Append(@, p)]
       IN  SetClient(IF ~client.pending
                     THEN [c EXCEPT !.pending = TRUE,
                                    !.flushes = Append(@, [stage |-> "tick",
                                                           loading |-> <<>>])]
                     ELSE c)

\* queueUpdate behind await Promise.resolve(): the queue is taken
Flush(i) ==
    /\ client.todo = 0
    /\ i \in DOMAIN client.flushes
    /\ Ticking(client.flushes[i])
    /\ \A j \in 1..(i - 1) : ~Ticking(client.flushes[j])
    /\ SetClient([client EXCEPT
                    !.pending = FALSE,
                    !.flushes[i] = [stage |-> "all", loading |-> client.queued],
                    !.queued = <<>>])

\* the callbacks among the values, in their order
RECURSIVE CallbacksOf(_)
CallbacksOf(values) ==
    IF values = <<>> THEN <<>>
    ELSE (IF client.promises[Head(values)].state = "fn"
          THEN <<Head(values)>> ELSE <<>>) \o CallbacksOf(Tail(values))

\* queueUpdate behind await Promise.all(loading): forEach((fn) => fn && fn())
InvokeAll(i) ==
    /\ client.todo = 0
    /\ i \in DOMAIN client.flushes
    /\ Loaded(client.flushes[i])
    /\ SetClient([client EXCEPT
                    !.flushes[i] = [stage |-> "done", loading |-> @.loading],
                    !.invoked = @ \o CallbacksOf(AllValues(
                                        client.flushes[i].loading))])

\* fetchUpdate returns: a callback, or nothing
Settle(p, state) ==
    /\ client.todo = 0
    /\ ~Microtasks
    /\ p \in DOMAIN client.promises
    /\ client.promises[p].state = "pending"
    /\ SetClient([client EXCEPT !.promises[p].state = state,
                                 !.settled = Append(@, p)])

NextClient ==
    \/ \E n \in 1..MaxUpdates : HandleMessage(n)
    \/ \E settled \in BOOLEAN : QueueUpdate(settled)
    \/ \E i \in 1..MaxPromises : Flush(i)
    \/ \E i \in 1..MaxPromises : InvokeAll(i)
    \/ \E p \in 1..MaxPromises :
       \E state \in {"fn", "undefined"} : Settle(p, state)

SpecClient == Init /\ [][NextClient]_vars

(***************************************************************************)
(* The client's fetchUpdate, and the call of the function it returns.      *)
(***************************************************************************)
\* the paths of the modules of the page
HotPaths == {"a", "b"}

MaxCallbacks == 2

\* the deps a callback may be registered with
CallbackDeps == {<<"a">>, <<"b">>, <<"a", "b">>}

\* mod.callbacks of a module of hotModulesMap
HotCallbacks == UNION {[1..n -> CallbackDeps] : n \in 0..MaxCallbacks}

Includes(seq, x) == \E i \in DOMAIN seq : seq[i] = x

\* modulesToUpdate: the path itself on a self update, else the accepted path
\* if a callback names it
ModulesToUpdate(update, callbacks) ==
    IF update.path = update.acceptedPath THEN <<update.path>>
    ELSE IF \E i \in DOMAIN callbacks : Includes(callbacks[i], update.acceptedPath)
    THEN <<update.acceptedPath>>
    ELSE <<>>

\* mod.callbacks.filter(({ deps }) => deps.some((dep) => modulesToUpdate.has(dep)))
QualifiedCallbacks(callbacks, modules) ==
    SelectSeq([i \in DOMAIN callbacks |-> i],
              LAMBDA i : \E j \in DOMAIN callbacks[i] :
                            Includes(modules, callbacks[i][j]))

HasDisposer_Never(disposeMap, dep) == FALSE

\* disposeMap.get(dep) is a function
HasDisposer(disposeMap, dep) == dep \in disposeMap

\* the map callback of a module up to its first await: the disposer is
\* called, or the import starts
StartDep(disposeMap, dep) ==
    IF HasDisposer(disposeMap, dep)
    THEN [state |-> "disposing", events |-> <<<<"dispose", dep>>>>]
    ELSE [state |-> "importing", events |-> <<<<"import", dep>>>>]

RECURSIVE StartEvents(_, _)
StartEvents(disposeMap, modules) ==
    IF modules = <<>> THEN <<>>
    ELSE StartDep(disposeMap, Head(modules)).events
         \o StartEvents(disposeMap, Tail(modules))

SetFetch(f) ==
    /\ fetch' = f
    /\ UNCHANGED <<graphVars, nCalls, last, hmrVars, reqVars, disk, lexer, mw,
                   client, plugins, lateVars>>

\* fetchUpdate({ path, acceptedPath, timestamp }) up to its await, with
\* hotModulesMap.get(path) (none, or the callbacks of the module) and the
\* keys of disposeMap
FetchUpdate(update, mod, disposeMap) ==
    /\ fetch.stage = "idle"
    /\ IF mod = {}
       THEN SetFetch([fetch EXCEPT !.stage = "returned", !.update = {update}])
       ELSE LET callbacks == TheValue(mod)
                modules == ModulesToUpdate(update, callbacks)
            IN  SetFetch([fetch EXCEPT
                    !.stage = "running",
                    !.update = {update},
                    !.callbacks = callbacks,
                    !.disposeMap = disposeMap,
                    !.modulesToUpdate = modules,
                    !.qualifiedCallbacks = QualifiedCallbacks(callbacks, modules),
                    !.deps = [i \in DOMAIN modules |->
                                StartDep(disposeMap, modules[i]).state],
                    !.events = StartEvents(disposeMap, modules)])

\* await disposer(dataMap.get(dep)) is over: the disposer has finished and
\* the import starts, or it has thrown and fetchUpdate rejects
Disposed(i, ok) ==
    /\ fetch.stage = "running"
    /\ i \in DOMAIN fetch.deps
    /\ fetch.deps[i] = "disposing"
    /\ LET dep == fetch.modulesToUpdate[i] IN
       IF ok
       THEN SetFetch([fetch EXCEPT
                !.deps[i] = "importing",
                !.events = @ \o <<<<"disposed", dep>>, <<"import", dep>>>>])
       ELSE SetFetch([fetch EXCEPT
                !.stage = "rejected",
                !.deps[i] = "thrown",
                !.events = Append(@, <<"thrown", dep>>)])

\* the dynamic import settles: moduleMap.set(dep, newMod), or warnFailedFetch
Imported(i, ok) ==
    /\ fetch.stage \in {"running", "rejected"}
    /\ i \in DOMAIN fetch.deps
    /\ fetch.deps[i] = "importing"
    /\ LET dep == fetch.modulesToUpdate[i] IN
       SetFetch([fetch EXCEPT
            !.deps[i] = IF ok THEN "imported" ELSE "failed",
            !.moduleMap = IF ok THEN @ \cup {dep} ELSE @,
            !.events = Append(@, <<"settled", dep>>)])

\* await Promise.all(...) is over: fetchUpdate returns the function
Return ==
    /\ fetch.stage = "running"
    /\ \A i \in DOMAIN fetch.deps : fetch.deps[i] \in {"imported", "failed"}
    /\ SetFetch([fetch EXCEPT !.stage = "returned", !.fn = TRUE])

\* queueUpdate calls the function returned: fn(deps.map(...)) for every
\* qualified callback
RunCallbacks ==
    /\ fetch.stage = "returned"
    /\ fetch.fn
    /\ SetFetch([fetch EXCEPT
            !.stage = "invoked",
            !.events = @ \o [k \in DOMAIN fetch.qualifiedCallbacks |->
                                <<"callback", fetch.qualifiedCallbacks[k]>>]])

NextFetch ==
    \/ \E path \in HotPaths : \E acceptedPath \in HotPaths :
       \E mod \in {{}} \cup {{c} : c \in HotCallbacks} :
       \E disposeMap \in SUBSET HotPaths :
          FetchUpdate([path |-> path, acceptedPath |-> acceptedPath], mod,
                      disposeMap)
    \/ \E i \in 1..2 : \E ok \in BOOLEAN : Disposed(i, ok)
    \/ \E i \in 1..2 : \E ok \in BOOLEAN : Imported(i, ok)
    \/ Return
    \/ RunCallbacks

SpecFetch == Init /\ [][NextFetch]_vars

(***************************************************************************)
(* A file event handled step by step.                                      *)
(***************************************************************************)
\* handleHMRUpdate of a file of the graph, without plugin hooks, up to the
\* first call of invalidate in updateModules
StartUpdate(file, timestamp) ==
    /\ ~Walking
    /\ nEvents < MaxEvents
    /\ file \in DOMAIN fileToModulesMap
    /\ Len(fileToModulesMap[file]) > 0
    /\ LET modules == fileToModulesMap[file]
           w == [Idle EXCEPT !.phase = "invalidate", !.modules = modules,
                             !.timestamp = timestamp]
           st == InvalidateCall([walk |-> w, nodes |-> nodes], Head(modules))
       IN /\ walk' = st.walk
          /\ nodes' = st.nodes
          /\ hmr' = [ outcome |-> "updateModules",
                      modules |-> modules, replaced |-> FALSE,
                      timestamp |-> timestamp, cachedBefore |-> Cached(nodes) ]
    /\ nEvents' = nEvents + 1
    /\ clock' = timestamp
    /\ ws' = <<>>
    /\ last' = NoOp
    /\ UNCHANGED <<urlToModuleMap, idToModuleMap, fileToModulesMap, nCalls,
                   nTransforms, reqVars, disk, lexer, mw, client, auxVars>>

\* one step of the invalidate walk: the next importer of the top frame, the
\* return of a frame whose importers are done, or, with no frame left, the
\* statements of updateModules up to the call of propagateUpdate
InvalidateStep ==
    /\ walk.phase = "invalidate"
    /\ walk.steps < MaxSteps
    /\ LET w == [walk EXCEPT !.steps = @ + 1]
       IN IF w.istack = <<>>
          THEN /\ walk' = IF w.needFullReload
                          THEN [w EXCEPT !.phase = "next"]
                          ELSE PropagateCall(nodes,
                                   [w EXCEPT !.phase = "propagate",
                                             !.boundaries = <<>>],
                                   Head(w.modules), <<Head(w.modules)>>)
               /\ UNCHANGED nodes
          ELSE LET f == Top(w.istack)
               IN IF f.rest = <<>>
                  THEN /\ walk' = [w EXCEPT !.istack = Pop(@)]
                       /\ UNCHANGED nodes
                  ELSE LET importer == Head(f.rest)
                           w1 == [w EXCEPT !.istack =
                                      SetTop(@, IFrame(f.mod, Tail(f.rest)))]
                           st == IF ~AcceptsDep(nodes, importer, f.mod)
                                 THEN InvalidateCall([walk |-> w1, nodes |-> nodes],
                                                     importer)
                                 ELSE [walk |-> w1, nodes |-> nodes]
                       IN /\ walk' = st.walk
                          /\ nodes' = st.nodes
    /\ UNCHANGED <<urlToModuleMap, idToModuleMap, fileToModulesMap, nCalls, last,
                   clock, ws, hmr, nTransforms, nEvents, reqVars, disk, lexer, mw, client, auxVars>>

\* one step of the boundary walk: the next importer of the top frame, or the
\* return of a frame whose importers are done
PropagateStep ==
    /\ walk.phase = "propagate"
    /\ walk.steps < MaxSteps
    /\ LET w == [walk EXCEPT !.steps = @ + 1]
           f == Top(w.pstack)
       IN IF f.rest = <<>>
          THEN walk' = PropagateReturn([w EXCEPT !.pstack = Pop(@)], FALSE)
          ELSE LET importer == Head(f.rest)
                   w1 == [w EXCEPT !.pstack =
                              SetTop(@, [f EXCEPT !.rest = Tail(@)])]
                   subChain == Append(f.currentChain, importer)
               IN IF f.loop = "css"
                  THEN walk' = IF WalksCssImporter(nodes, importer, f.currentChain)
                               THEN PropagateCall(nodes, w1, importer, subChain)
                               ELSE w1
                  ELSE IF AcceptsDep(nodes, importer, f.node)
                  THEN walk' = [w1 EXCEPT !.boundaries =
                                   Append(@, Boundary(importer, f.node))]
                  ELSE IF OnChain(f.currentChain, importer)
                  THEN walk' = LET w2 == [w1 EXCEPT !.circular =
                                             @ \cup {Circular(w1.pstack)}]
                               IN IF CircularIsDeadEnd
                                  THEN PropagateReturn(
                                           [w2 EXCEPT !.pstack = Pop(@)], TRUE)
                                  ELSE w2
                  ELSE walk' = PropagateCall(nodes, w1, importer, subChain)
    /\ UNCHANGED <<graphVars, nCalls, last, clock, ws, hmr, nTransforms, nEvents,
                   reqVars, disk, lexer, mw, client, auxVars>>

\* the statements of updateModules after propagateUpdate returned
CollectStep ==
    /\ walk.phase = "collect"
    /\ walk' = IF walk.hasDeadEnd
               THEN [walk EXCEPT !.needFullReload = TRUE, !.phase = "next"]
               ELSE [walk EXCEPT !.phase = "next",
                                 !.updates = @ \o
                                     [i \in 1..Len(walk.boundaries) |->
                                         Update(nodes, walk.boundaries[i],
                                                walk.timestamp)]]
    /\ UNCHANGED <<graphVars, nCalls, last, clock, ws, hmr, nTransforms, nEvents,
                   reqVars, disk, lexer, mw, client, auxVars>>

\* the next iteration of the for loop of updateModules or, after the last,
\* its ws.send
NextModuleStep ==
    /\ walk.phase = "next"
    /\ IF Len(walk.modules) > 1
       THEN LET w == [walk EXCEPT !.phase = "invalidate", !.modules = Tail(@)]
                st == InvalidateCall([walk |-> w, nodes |-> nodes], Head(w.modules))
            IN /\ walk' = st.walk
               /\ nodes' = st.nodes
               /\ UNCHANGED ws
       ELSE /\ walk' = [walk EXCEPT !.phase = "done", !.modules = <<>>]
            /\ ws' = Append(ws, Payload(walk.needFullReload, walk.updates))
            /\ UNCHANGED nodes
    /\ UNCHANGED <<urlToModuleMap, idToModuleMap, fileToModulesMap, nCalls, last,
                   clock, hmr, nTransforms, nEvents, reqVars, disk, lexer, mw, client, auxVars>>

WalkStep == InvalidateStep \/ PropagateStep \/ CollectStep \/ NextModuleStep

NextWalk ==
    \/ \E rawUrl \in HmrUrls :
       \E importedModules \in HmrImportArgs(rawUrl) :
       \E acceptedModules \in HmrAcceptArgs(importedModules) :
       \E isSelfAccepting \in BOOLEAN :
          TransformModule(rawUrl, importedModules, acceptedModules, isSelfAccepting)
    \/ \E file \in Paths :
       \E timestamp \in clock..MaxClock :
          StartUpdate(file, timestamp)
    \/ InvalidateStep
    \/ PropagateStep
    \/ CollectStep
    \/ NextModuleStep

\* updateModules runs synchronously: once started, its steps are taken
SpecWalk == Init /\ [][NextWalk]_vars /\ WF_vars(WalkStep)


(***************************************************************************)
(* Properties of the module graph, checked under Spec.                     *)
(***************************************************************************)
ImportersOf(n) == Range(nodes[n].importers)

CalledUpdateModuleInfo == last.op = "updateModuleInfo"

\* C1: after any sequence of completed ensureEntryFromUrl and
\* updateModuleInfo calls, b is in a.importedModules exactly when a is in
\* b.importers, for all nodes a and b.
C1_EdgesAreMutual ==
    \A a \in DOMAIN nodes :
        /\ nodes[a].importedModules \subseteq DOMAIN nodes
        /\ ImportersOf(a) \subseteq DOMAIN nodes
        /\ \A b \in DOMAIN nodes :
              b \in nodes[a].importedModules <=> a \in ImportersOf(b)

\* a call has replaced some imports by others and edges remain
C1_Witness ==
    /\ CalledUpdateModuleInfo
    /\ last.dropped # {}
    /\ last.imported # {}
    /\ \E b \in DOMAIN nodes : Cardinality(ImportersOf(b)) = 2

AcceptedWithinImports ==
    \A m \in DOMAIN nodes :
        nodes[m].acceptedHmrDeps \subseteq nodes[m].importedModules \cup {m}

\* C2 as stated: after any sequence of updateModuleInfo calls with any
\* arguments, every module's acceptedHmrDeps are among its importedModules
\* or the module itself.
C2_AcceptedWithinImports_AnyArguments == AcceptedWithinImports

\* the call just made named accepted deps among its imports or itself
LastAcceptedAmongImported ==
    CalledUpdateModuleInfo => last.accepted \subseteq last.imported \cup {last.mod}

\* C2 as amended: the inclusion holds initially and is kept by every call
\* whose accepted urls resolve to nodes of its imported urls or to the
\* module itself; hence it holds after any sequence of such calls.
C2_AcceptedWithinImports_Kept ==
    [][(AcceptedWithinImports /\ LastAcceptedAmongImported')
          => AcceptedWithinImports']_vars

\* a call that accepted one of its imports, made while another module
\* already holds accepted deps
C2_Witness ==
    /\ CalledUpdateModuleInfo
    /\ last.accepted # {}
    /\ last.accepted \subseteq last.imported
    /\ AcceptedWithinImports
    /\ \E m \in DOMAIN nodes \ {last.mod} : nodes[m].acceptedHmrDeps # {}

\* C4: after updateModuleInfo(m, I, A, s), m.importedModules is the set of
\* nodes of I, m.acceptedHmrDeps the set of nodes of A, m.isSelfAccepting
\* is s, and no module that m imported before and that is not in I has m
\* among its importers.
C4_UpdateModuleInfoPost ==
    CalledUpdateModuleInfo =>
        /\ nodes[last.mod].importedModules = last.imported
        /\ nodes[last.mod].acceptedHmrDeps = last.accepted
        /\ nodes[last.mod].isSelfAccepting = last.isSelfAccepting
        /\ \A dep \in last.dropped : last.mod \notin ImportersOf(dep)

\* a call that dropped an import, kept another, and set accepted deps and
\* the self-accepting flag
C4_Witness ==
    /\ CalledUpdateModuleInfo
    /\ last.dropped # {}
    /\ last.imported # {}
    /\ last.accepted # {}
    /\ last.isSelfAccepting

\* C5: updateModuleInfo returns exactly the modules that were imported
\* before the call, are not imported after it and have no importer left,
\* and undefined when there is none.
C5_NoLongerImportedExact ==
    CalledUpdateModuleInfo =>
        LET orphaned == {dep \in last.dropped : ImportersOf(dep) = {}}
        IN last.noLongerImported =
              IF orphaned = {} THEN None ELSE Some(orphaned)

\* a call that dropped two imports, one left without importer and returned,
\* the other still imported elsewhere and not returned
C5_Witness ==
    /\ CalledUpdateModuleInfo
    /\ last.noLongerImported # None
    /\ \E dep \in last.dropped : ImportersOf(dep) # {}

(***************************************************************************)
(* The end-to-end scenarios of a changed file, on SpecHmr.                 *)
(***************************************************************************)
\* the last operation was a file event of B's file that reached
\* updateModules with B as its only module, no plugin having replaced the list
ChangedOnly(B) ==
    /\ hmr.outcome = "updateModules"
    /\ hmr.modules = <<B>>
    /\ ~hmr.replaced

\* the entry a boundary (boundary, acceptedVia) yields in the last payload
Entry(boundary, acceptedVia) ==
    [ type |-> IF nodes[boundary].type = "css" THEN "css-update" ELSE "js-update",
      timestamp |-> hmr.timestamp,
      path |-> nodes[boundary].url,
      acceptedPath |-> nodes[acceptedVia].url ]

\* the self-accepting leaf: A imports B, B is self-accepting, B changed
SelfAcceptingLeaf(A, B) ==
    /\ A \in ImportersOf(B)
    /\ nodes[B].isSelfAccepting
    /\ ChangedOnly(B)

\* the dep-accepting parent: A imports B and accepts it, B changed
DepAcceptingParent(A, B) ==
    /\ A \in ImportersOf(B)
    /\ B \in nodes[A].acceptedHmrDeps
    /\ ChangedOnly(B)

\* C7 as stated: whenever A imports a self-accepting B and B's file changes,
\* the payload sent is an update with exactly one entry, B accepted by B,
\* typed after B's type.
C7_SelfAcceptingLeaf_OneEntry ==
    \A A, B \in DOMAIN nodes :
        SelfAcceptingLeaf(A, B) => ws = <<UpdatePayload(<<Entry(B, B)>>)>>

\* C7 as amended: the payload is always an update whose first entry is B
\* accepted by B, typed after B's type; it is the only entry when no
\* importer of B is a CSS request.
C7_SelfAcceptingLeaf_NoCssImporter ==
    \A A, B \in DOMAIN nodes :
        SelfAcceptingLeaf(A, B) =>
            /\ Len(ws) = 1
            /\ ws[1].type = "update"
            /\ Len(ws[1].updates) >= 1
            /\ ws[1].updates[1] = Entry(B, B)
            /\ (\A i \in ImportersOf(B) : ~isCSSRequest(nodes[i].url))
                   => ws = <<UpdatePayload(<<Entry(B, B)>>)>>

\* a self-accepting leaf of type css, imported by a script only, has changed
C7_Witness ==
    \E A, B \in DOMAIN nodes :
        /\ SelfAcceptingLeaf(A, B)
        /\ nodes[B].type = "css"
        /\ nodes[B].importedModules = {}
        /\ ImportersOf(B) = {A}
        /\ ~isCSSRequest(nodes[A].url)
        /\ ws = <<UpdatePayload(<<Entry(B, B)>>)>>

\* C8 as stated: in the self-accepting leaf, when A does not accept B, the
\* cached transformResult A had before the change is still there after it.
C8_ImporterCacheKept ==
    \A A, B \in DOMAIN nodes :
        (/\ SelfAcceptingLeaf(A, B)
         /\ B \notin nodes[A].acceptedHmrDeps
         /\ A \in hmr.cachedBefore)
            => nodes[A].transformResult # None

\* C8 as amended: in the self-accepting leaf, when A does not accept B, the
\* change clears the cached transformResult of B and of A alike and stamps
\* both with the timestamp of the change.
C8_ImporterCacheCleared ==
    \A A, B \in DOMAIN nodes :
        (/\ SelfAcceptingLeaf(A, B)
         /\ B \notin nodes[A].acceptedHmrDeps)
            => /\ nodes[A].transformResult = None
               /\ nodes[B].transformResult = None
               /\ nodes[A].lastHMRTimestamp = hmr.timestamp
               /\ nodes[B].lastHMRTimestamp = hmr.timestamp

\* a self-accepting leaf changed while its importer and itself were cached
C8_Witness ==
    \E A, B \in DOMAIN nodes :
        /\ SelfAcceptingLeaf(A, B)
        /\ B \notin nodes[A].acceptedHmrDeps
        /\ {A, B} \subseteq hmr.cachedBefore
        /\ A # B
        /\ nodes[A].transformResult = None

NotCssDeadEnd(A, B) == isCSSRequest(nodes[B].url) \/ ~isCSSRequest(nodes[A].url)

C10_BothCachesCleared ==
    \A A, B \in DOMAIN nodes :
        DepAcceptingParent(A, B)
            => /\ nodes[A].transformResult = None
               /\ nodes[B].transformResult = None

\* C10 as amended: in the dep-accepting parent, the change clears the cached
\* transformResult of B; when A is the only importer of B, the
\* transformResult A had cached before the change is still there.
C10_AcceptingParentCacheKept ==
    \A A, B \in DOMAIN nodes :
        DepAcceptingParent(A, B)
            => /\ nodes[B].transformResult = None
               /\ nodes[B].lastHMRTimestamp = hmr.timestamp
               /\ (ImportersOf(B) = {A} /\ A \in hmr.cachedBefore)
                      => nodes[A].transformResult # None

\* a module changed while itself and its only, accepting, importer were cached
C10_Witness ==
    \E A, B \in DOMAIN nodes :
        /\ DepAcceptingParent(A, B)
        /\ ImportersOf(B) = {A}
        /\ A # B
        /\ {A, B} \subseteq hmr.cachedBefore
        /\ nodes[B].transformResult = None
        /\ nodes[A].transformResult # None

(***************************************************************************)
(* Termination of the walks, on SpecWalk.                                  *)
(***************************************************************************)
WalkDone == walk.phase = "done"

\* two distinct modules import each other
OnCycle(A, B) == A # B /\ A \in ImportersOf(B) /\ B \in ImportersOf(A)

\* cycles are cut: no call of propagateUpdate has a module twice on its
\* chain
ChainsAreSimple ==
    \A f \in 1..Len(walk.pstack) :
        \A j, k \in 1..Len(walk.pstack[f].currentChain) :
            walk.pstack[f].currentChain[j] = walk.pstack[f].currentChain[k]
                => j = k

\* C6: on every graph, cyclic or not, a started update handling finishes:
\* the invalidate walk and the boundary walk both run out of frames within
\* the explored number of steps, cycles being cut, no payload is sent before
\* they have, and exactly one has been sent when the handling is done.
C6_WalksTerminate ==
    /\ Walking ~> WalkDone
    /\ []ChainsAreSimple
    /\ [](Walking => (ws = <<>> /\ walk.steps <= MaxSteps))
    /\ [](WalkDone => (Len(ws) = 1 /\ walk.istack = <<>> /\ walk.pstack = <<>>))

\* the handling of a module on a cycle is done: both walks went round the
\* cycle, the boundary walk cut it as a dead end
C6_Witness ==
    \E A, B \in DOMAIN nodes :
        /\ WalkDone
        /\ OnCycle(A, B)
        /\ hmr.modules = <<A>>
        /\ walk.seen = {A, B}
        /\ ws = <<FullReload(None)>>

(***************************************************************************)
(* Request deduplication, on SpecTransform.                                *)
(***************************************************************************)
\* the computations of a cache key that have not completed
Active(cacheKey) ==
    {i \in DOMAIN requests : /\ requests[i].cacheKey = cacheKey
                             /\ requests[i].outcome = "pending"}

CacheKeys == {CacheKey(url, options) : url \in TransformUrls, options \in TransformOptions}

\* the last operation was a transformRequest call made while a request of
\* its cache key was in the map
JoinedInFlight ==
    /\ lastCall.op = "transformRequest"
    /\ lastCall.inFlight # None

\* C3: per cache key at most one doTransform computation has not completed,
\* and it is the one the in-flight map holds; a transformRequest call made
\* while the map holds a request of its key returns that request and starts
\* no computation; once the done reaction of a completed computation has
\* run, resolved or rejected, the map no longer holds it.
C3_OneInFlightPerKey ==
    /\ \A cacheKey \in CacheKeys : Cardinality(Active(cacheKey)) <= 1
    /\ \A i \in DOMAIN requests :
          /\ requests[i].outcome = "pending"
                => PendingRequest(pendingRequests, requests[i].cacheKey) = Some(i)
          /\ requests[i].pc = "done"
                => PendingRequest(pendingRequests, requests[i].cacheKey) # Some(i)
    /\ \A cacheKey \in DOMAIN pendingRequests :
          /\ pendingRequests[cacheKey] \in DOMAIN requests
          /\ requests[pendingRequests[cacheKey]].cacheKey = cacheKey
          /\ requests[pendingRequests[cacheKey]].pc # "done"
    /\ JoinedInFlight
          => /\ lastCall.returned = TheValue(lastCall.inFlight)
             /\ Len(requests) = lastCall.computations

\* a call has joined the computation in flight for its key, after an
\* earlier computation was rejected and its key removed
C3_Witness ==
    /\ JoinedInFlight
    /\ requests[lastCall.returned].outcome = "pending"
    /\ \E i \in DOMAIN requests :
          /\ requests[i].pc = "done"
          /\ requests[i].outcome = "rejected"
          /\ requests[i].cacheKey = lastCall.cacheKey
          /\ i # lastCall.returned

(***************************************************************************)
(* Circular imports, on SpecWalk.                                          *)
(***************************************************************************)
\* A and B import each other, neither is self-accepting nor accepts the other
CircularDep(A, B) ==
    /\ OnCycle(A, B)
    /\ ~nodes[A].isSelfAccepting /\ ~nodes[B].isSelfAccepting
    /\ B \notin nodes[A].acceptedHmrDeps /\ A \notin nodes[B].acceptedHmrDeps

\* the handling of a change of A alone in a circular dependency sent a
\* full-reload
CircularDepReloads ==
    \A A, B \in DOMAIN nodes :
        (WalkDone /\ hmr.modules = <<A>> /\ CircularDep(A, B))
            => ws = <<FullReload(None)>>

\* C11 as stated: a change of A in a circular dependency of A and B sends a
\* full-reload, and so does every handling whose boundary walk reached an
\* importer already on the current chain that does not accept the node below.
C11_CircularIsDeadEnd_Always ==
    /\ CircularDepReloads
    /\ (WalkDone /\ walk.circular # {}) => ws = <<FullReload(None)>>

\* C11 as amended: a change of A in a circular dependency of A and B sends a
\* full-reload, and so does every handling that reached such an importer in
\* a walk started by updateModules itself; met only in walks started from
\* the loop over the CSS importers of a self-accepting module, it ends that
\* walk, whose result is dropped, and an update can be sent.
C11_CircularIsDeadEnd_Direct ==
    /\ CircularDepReloads
    /\ (WalkDone /\ "direct" \in walk.circular) => ws = <<FullReload(None)>>
    /\ (WalkDone /\ ws # <<FullReload(None)>> /\ walk.circular # {})
           => /\ walk.circular = {"nested"}
              /\ ws[1].type = "update"
              /\ Len(ws[1].updates) >= 1

\* A changed in a circular dependency, the walk came back to A on the chain
C11_Witness ==
    \E A, B \in DOMAIN nodes :
        /\ WalkDone
        /\ hmr.modules = <<A>>
        /\ CircularDep(A, B)
        /\ walk.circular = {"direct"}
        /\ ws = <<FullReload(None)>>

(***************************************************************************)
(* Dead ends, on SpecHmr.                                                  *)
(***************************************************************************)
\* the importers of n that do not accept n
Unaccepting(n) == {i \in ImportersOf(n) : n \notin nodes[i].acceptedHmrDeps}

\* the modules reached from those of S along importers that do not accept
\* the node below them and satisfy Through, in at most k steps
RECURSIVE Climb(_, _, _)
Climb(S, Through(_), k) ==
    IF k = 0 THEN S
    ELSE Climb(S \cup {i \in UNION {Unaccepting(n) : n \in S} : Through(i)},
               Through, k - 1)

AnyModule(n) == TRUE
NotSelfAccepting(n) == ~nodes[n].isSelfAccepting

\* some importer path from M that crosses no accepting importer, and only
\* modules that satisfy Through, ends at a module without importers
ReachesRoot(M, Through(_)) ==
    \E r \in Climb({M}, Through, Cardinality(DOMAIN nodes)) :
        Len(nodes[r].importers) = 0

\* the last file event handed M to updateModules
Changed(M) == hmr.outcome = "updateModules" /\ M \in Range(hmr.modules)

\* C12 as stated: when a changed module is not self-accepting and an
\* importer path from it reaches a module without importers crossing no
\* importer that accepts the node below it, the one payload is a full-reload.
C12_DeadEndViaRoot_AnyPath ==
    \A M \in DOMAIN nodes :
        (Changed(M) /\ ~nodes[M].isSelfAccepting /\ ReachesRoot(M, AnyModule))
            => ws = <<FullReload(None)>>

\* C12 as amended: the same, for a path none of whose modules is
\* self-accepting.
C12_DeadEndViaRoot_NoSelfAccepting ==
    \A M \in DOMAIN nodes :
        (Changed(M) /\ ~nodes[M].isSelfAccepting /\ ReachesRoot(M, NotSelfAccepting))
            => ws = <<FullReload(None)>>

\* B changed, its importer A accepts nothing and has no importers
C12_Witness ==
    \E A, B \in DOMAIN nodes :
        /\ Changed(B)
        /\ A # B
        /\ ImportersOf(B) = {A}
        /\ ~nodes[A].isSelfAccepting /\ ~nodes[B].isSelfAccepting
        /\ B \notin nodes[A].acceptedHmrDeps
        /\ Len(nodes[A].importers) = 0
        /\ ws = <<FullReload(None)>>

(***************************************************************************)
(* The CSS importers of a self-accepting module, on SpecHmr.               *)
(***************************************************************************)
\* the entries of the one update payload sent, none if it was no update
Entries == IF Len(ws) = 1 /\ ws[1].type = "update" THEN Range(ws[1].updates) ELSE {}

\* a changed self-accepting module is never a dead end and is the first
\* boundary; each self-accepting CSS importer of it is a boundary as well
SelfAcceptingBubbles ==
    \A B \in DOMAIN nodes :
        (ChangedOnly(B) /\ nodes[B].isSelfAccepting)
            => /\ Len(ws) = 1
               /\ ws[1].type = "update"
               /\ Len(ws[1].updates) >= 1
               /\ ws[1].updates[1] = Entry(B, B)
               /\ \A I \in ImportersOf(B) :
                     (isCSSRequest(nodes[I].url) /\ nodes[I].isSelfAccepting)
                         => Entry(I, I) \in Entries

\* main.css (A) imports the self-accepting tokens.css (B), which changed
CssBubble(A, B) ==
    /\ A # B
    /\ isCSSRequest(nodes[A].url) /\ isCSSRequest(nodes[B].url)
    /\ A \in ImportersOf(B)
    /\ nodes[B].isSelfAccepting
    /\ ChangedOnly(B)

WalkOf(M) == propagateUpdate(nodes, M, <<>>, <<M>>)

\* the entries the boundaries of the walk of M yield
EntriesOf(M) ==
    [i \in 1..Len(WalkOf(M).boundaries) |->
        Entry(WalkOf(M).boundaries[i].boundary, WalkOf(M).boundaries[i].acceptedVia)]

\* the entries of the walks of the modules of a list, in order
RECURSIVE AllEntries(_)
AllEntries(modules) ==
    IF modules = <<>> THEN <<>>
    ELSE EntriesOf(Head(modules)) \o AllEntries(Tail(modules))

\* C14: an update computation over a non-empty module list sends exactly
\* one payload: a full-reload if the boundary walk of some module of the
\* list hits a dead end, otherwise an update with one entry per boundary of
\* the walks of the modules, in list order; every module of the list has
\* been invalidated, those after a dead end included.
C14_OnePayloadPerComputation ==
    hmr.outcome = "updateModules"
        => /\ Len(hmr.modules) > 0
           /\ Len(ws) = 1
           /\ IF \E i \in 1..Len(hmr.modules) : WalkOf(hmr.modules[i]).hasDeadEnd
              THEN ws[1] = [type |-> "full-reload", path |-> None, updates |-> <<>>]
              ELSE ws[1] = [type |-> "update", path |-> None,
                            updates |-> AllEntries(hmr.modules)]
           /\ \A M \in Range(hmr.modules) :
                 /\ nodes[M].transformResult = None
                 /\ nodes[M].lastHMRTimestamp = hmr.timestamp

\* a list of two modules: the walk of the first hit a dead end, the second,
\* cached before and out of reach of the first invalidate walk, was
\* invalidated all the same
C14_Witness ==
    /\ hmr.outcome = "updateModules"
    /\ Len(hmr.modules) = 2
    /\ hmr.modules[1] # hmr.modules[2]
    /\ Len(nodes[hmr.modules[1]].importers) = 0
    /\ ~nodes[hmr.modules[1]].isSelfAccepting
    /\ hmr.modules[2] \in hmr.cachedBefore
    /\ nodes[hmr.modules[2]].transformResult = None
    /\ ws = <<FullReload(None)>>

(***************************************************************************)
(* Transforms in flight across an invalidation, on SpecStale.              *)
(***************************************************************************)
\* no transform is in flight
AllCompleted == \A i \in DOMAIN requests : requests[i].outcome # "pending"

\* the cached result of n was computed from the code its file has now
Fresh(n) ==
    TheValue(nodes[n].transformResult).code = ReadFile(disk, TheValue(nodes[n].file))

\* C15: once the transforms that were in flight when a changed module was
\* invalidated have all completed, the module has no cached transformResult
\* or one computed from the content loaded after the change.
C15_NoStaleResultStays ==
    \A M \in DOMAIN nodes :
        (Changed(M) /\ AllCompleted)
            => (nodes[M].transformResult = None \/ Fresh(M))

(***************************************************************************)
(* A hook that throws, on SpecTransform.                                   *)
(***************************************************************************)
\* this step rejects request i: a hook of its load or transform threw
Rejects(i) ==
    /\ requests[i].outcome = "pending"
    /\ requests'[i].outcome = "rejected"

\* every earlier request of the cache key was rejected or resolved and has
\* had its done reaction run, one at least rejected
FailedBefore(cacheKey) ==
    /\ \E i \in DOMAIN requests :
          requests[i].cacheKey = cacheKey /\ requests[i].outcome = "rejected"
    /\ \A i \in DOMAIN requests :
          requests[i].cacheKey = cacheKey => requests[i].pc = "done"

\* this step is a transformRequest call that started a computation
StartsFresh(cacheKey) ==
    /\ lastCall'.inFlight = None
    /\ Len(requests') = Len(requests) + 1
    /\ lastCall'.returned = Len(requests')
    /\ requests'[Len(requests')].cacheKey = cacheKey
    /\ requests'[Len(requests')].pc = "getModule"
    /\ requests'[Len(requests')].outcome = "pending"

\* C16: a step in which a hook throws rejects the request and leaves every
\* module as it was, the cached transformResult of the module requested
\* and of all others included; a transformRequest call for a key whose
\* failed request is gone starts a fresh computation.
C16_ThrowLeavesCachesAlone ==
    [][ /\ \A i \in DOMAIN requests :
              Rejects(i) => (nodes' = nodes /\ requests'[i].value = None)
        /\ (lastCall'.op = "transformRequest" /\ FailedBefore(lastCall'.cacheKey))
              => StartsFresh(lastCall'.cacheKey) ]_vars

\* a transform hook threw for a url, its entry was removed, and a second
\* request for the same url has started a fresh computation; the module has
\* no cached result
C16_Witness ==
    /\ lastCall.op = "transformRequest"
    /\ lastCall.inFlight = None
    /\ lastCall.returned = 2
    /\ requests[1].cacheKey = lastCall.cacheKey
    /\ requests[1].outcome = "rejected"
    /\ requests[1].code # None
    /\ requests[1].pc = "done"
    /\ requests[2].outcome = "pending"
    /\ \A n \in DOMAIN nodes : nodes[n].transformResult = None

(***************************************************************************)
(* C17: the lexer gives back the literals it was given.                    *)
(***************************************************************************)
\* the call of the lexer has returned or thrown
Lexed == lexer.out # {}

LexOut == TheValue(lexer.out)

\* the arguments the code of the call was written from
LexArgs == TheValue(lexer.args)

\* the urls the lexer recorded, in order
RecordedUrls(r) == [i \in 1..Len(r.urls) |-> r.urls[i].url]

\* the texts of the literals, in order
LiteralUrls(a) == [i \in 1..Len(a.lits) |-> a.lits[i].content]

RoundTrip(a, r) ==
    IF a.form \in {"array", "single"}
    THEN r.kind = "return" /\ r.selfAccepts = {FALSE}
         /\ RecordedUrls(r) = LiteralUrls(a)
    ELSE r.kind = "return" /\ r.selfAccepts = {TRUE} /\ r.urls = <<>>

\* C17: for an array of string literals of any of the three quotes, with any
\* whitespace, the lexer records exactly the texts of the literals in order and
\* returns false; for one string literal it records that text and returns
\* false; for a callback alone or no argument it returns true and records
\* nothing.
C17_LexerRoundTrip ==
    (Lexed /\ lexer.args # {} /\ LexArgs.form # "expression")
        => RoundTrip(LexArgs, LexOut)

\* a literal that holds its own quote behind a backslash
Escapes(l) == \E i \in 1..Len(l.content) : l.content[i] = "\\"

\* the same holds of the literals that hold no backslash
C17_RoundTripWithoutEscapes ==
    (Lexed /\ lexer.args # {} /\ LexArgs.form # "expression"
        /\ \A i \in 1..Len(LexArgs.lits) : ~Escapes(LexArgs.lits[i]))
        => RoundTrip(LexArgs, LexOut)

(***************************************************************************)
(* C18: the errors of the lexer.                                           *)
(***************************************************************************)
\* the least index from i on where the code holds char, or its length
RECURSIVE IndexOf(_, _, _)
IndexOf(code, char, i) ==
    IF i >= Len(code) \/ charAt(code, i) = char THEN i
    ELSE IndexOf(code, char, i + 1)

\* the indices of the string opened at i and closed at j where an
\* interpolation starts
Interpolations(code, i, j) ==
    IF charAt(code, i) # Backquote THEN {}
    ELSE {k \in (i + 1)..(j - 1) :
            charAt(code, k) = "$" /\ charAt(code, k + 1) = "{"}

Least(S) == CHOOSE k \in S : \A l \in S : k <= l

\* the position of the first character of the array opened before i that is
\* neither whitespace, a comma, the closing bracket nor part of a string, a
\* string running from its delimiter to the next occurrence of it; or the
\* position of the first interpolation of a template string
RECURSIVE ArrayError(_, _)
ArrayError(code, i) ==
    IF i >= Len(code) THEN {}
    ELSE LET char == charAt(code, i) IN
         IF char \in {" ", "\n", ","} THEN ArrayError(code, i + 1)
         ELSE IF char = "]" THEN {}
         ELSE IF char \in {"'", "\"", Backquote}
         THEN LET j == IndexOf(code, char, i + 1)
                  dollars == Interpolations(code, i, j)
              IN  IF dollars # {} THEN {Least(dollars)}
                  ELSE ArrayError(code, j + 1)
         ELSE {i}

\* the index of the first character from i on that is not whitespace
RECURSIVE SkipSpace(_, _)
SkipSpace(code, i) ==
    IF i < Len(code) /\ charAt(code, i) \in {" ", "\n"}
    THEN SkipSpace(code, i + 1) ELSE i

\* where the arguments that start at start are in error
ArgsError(code, start) ==
    LET i == SkipSpace(code, start)
        char == charAt(code, i)
    IN  IF char = "[" THEN ArrayError(code, i + 1)
        ELSE IF char = Backquote
        THEN LET dollars == Interpolations(code, i,
                                           IndexOf(code, Backquote, i + 1))
             IN  IF dollars = {} THEN {} ELSE {Least(dollars)}
        ELSE {}

\* the lexer throws exactly where the arguments are in error, with the
\* position of the error and without a result
ThrowsAtError ==
    LET pos == ArgsError(lexer.code, lexer.start) IN
    IF pos = {} THEN LexOut.kind = "return" /\ LexOut.selfAccepts # {}
    ELSE LexOut.kind = "throw" /\ LexOut.pos = pos /\ LexOut.selfAccepts = {}

\* the first argument of at least two is an expression that is no literal
ExpressionAsDep == lexer.args # {} /\ LexArgs.form = "expression"

\* C18 as stated: the lexer raises an error that carries the position whenever
\* a character other than whitespace, a comma, the closing bracket or a string
\* delimiter stands inside the array, whenever the dep argument is an
\* expression that is no literal, and whenever an interpolation starts inside
\* a template literal; on error no result is returned.
C18_ErrorOnNonLiteral ==
    Lexed => /\ ArgsError(lexer.code, lexer.start) # {} => ThrowsAtError
             /\ ExpressionAsDep => LexOut.kind = "throw"

\* C18, amended: the lexer raises an error that carries the position of the
\* offending character, and returns no result, exactly when a character other
\* than whitespace, a comma, the closing bracket or a string delimiter stands
\* inside the array and outside its strings, or an interpolation starts inside
\* a template literal; an expression that is no literal in the place of the
\* dep argument raises no error: the lexer returns true and records nothing.
C18_ErrorInArrayOrTemplate ==
    Lexed => /\ ThrowsAtError
             /\ ExpressionAsDep =>
                    /\ LexOut.kind = "return"
                    /\ LexOut.selfAccepts = {TRUE}
                    /\ LexOut.urls = <<>>

\* the lexer, started behind a prefix, has recorded a literal of an array and
\* thrown at the expression that follows it
C18_Witness ==
    /\ Lexed
    /\ lexer.start = 1
    /\ LexOut.kind = "throw"
    /\ Len(LexOut.urls) = 1
    /\ \E p \in LexOut.pos : charAt(lexer.code, p) = "x" /\ p > lexer.start + 2

(***************************************************************************)
(* C19: requests wait for the pending reload, for a second at most.        *)
(***************************************************************************)
\* the urls of the client runtime
ClientRuntimeUrls ==
    {<<"@vite", "client">>, <<"@fs", "x", "vite", "dist", "client", "env.mjs">>}

\* a request the middleware transforms, received under a published
\* server._pendingReload
HeldUp(r) ==
    /\ r.method = "GET"
    /\ r.url \notin {<<>>, <<"favicon.ico">>}
    /\ r.url \notin ClientRuntimeUrls
    /\ r.under # {}

PublishedTo(r) == mw.promises[TheValue(r.under)]

\* the promise was not resolved within a second of the request
Expired(r) ==
    /\ mw.now > r.arrived + 1000
    /\ \/ PublishedTo(r).state = "pending"
       \/ PublishedTo(r).at > r.arrived + 1000

\* C19: a request that is not for the client runtime and is received while
\* server._pendingReload is published is not transformed before that promise
\* resolves; once a second has passed without the promise resolved, the request
\* is answered 408 and never transformed; a request for the client runtime
\* never waits.
C19_WaitsForPendingReload ==
    \A i \in DOMAIN mw.reqs :
        LET r == mw.reqs[i] IN
        /\ (HeldUp(r) /\ r.transformed) => PublishedTo(r).state = "resolved"
        /\ (HeldUp(r) /\ Expired(r)) => r.statusCode = 408 /\ ~r.transformed
        /\ r.statusCode = 408 => ~r.transformed
        /\ r.url \in ClientRuntimeUrls =>
                /\ ~Waiting(r)
                /\ r.awaits = {}
                /\ r.method = "GET" => r.transformed

\* under one pending reload, a request was answered 408 after a second, and a
\* request for the client runtime was transformed at once
C19_Witness ==
    /\ Len(mw.reqs) = 2
    /\ HeldUp(mw.reqs[1]) /\ Expired(mw.reqs[1])
    /\ mw.reqs[1].statusCode = 408
    /\ mw.reqs[2].url \in ClientRuntimeUrls
    /\ mw.reqs[2].under = mw.reqs[1].under
    /\ mw.reqs[2].transformed

\* a request that was held has gone on after the promise resolved
C19_Resumed ==
    \E i \in DOMAIN mw.reqs :
        HeldUp(mw.reqs[i]) /\ mw.reqs[i].transformed
            /\ mw.reqs[i].awaits # {}

(***************************************************************************)
(* C20: the order of the update callbacks.                                 *)
(***************************************************************************)
\* the place of promise p in a sequence of promises, 0 if it is not there
Place(seq, p) ==
    IF \E i \in DOMAIN seq : seq[i] = p
    THEN CHOOSE i \in DOMAIN seq : seq[i] = p ELSE 0

\* the callbacks of p and q were invoked, p's first
InvokedBefore(p, q) ==
    /\ Place(client.invoked, p) > 0
    /\ Place(client.invoked, p) < Place(client.invoked, q)

SamePayload(p, q) == client.promises[p].payload = client.promises[q].payload

\* C20 as stated: for any calls of queueUpdate and any order in which the
\* promises resolve, the callbacks are invoked in the order in which their
\* promises were queued.
C20_InvokedInQueuedOrder ==
    \A p, q \in DOMAIN client.promises : InvokedBefore(p, q) => p < q

\* C20, amended: the callbacks of the updates of one message are invoked in
\* the order in which their promises were queued, and after every promise of
\* the message has settled, in whatever order the promises resolve.
C20_InvokedInQueuedOrderPerMessage ==
    \A p, q \in DOMAIN client.promises :
        /\ (InvokedBefore(p, q) /\ SamePayload(p, q)) => p < q
        /\ (Place(client.invoked, p) > 0 /\ SamePayload(p, q))
                => client.promises[q].state # "pending"

\* two updates of one message resolved against their order, and both
\* callbacks were invoked
C20_Witness ==
    \E p, q \in DOMAIN client.promises :
        /\ p < q
        /\ SamePayload(p, q)
        /\ Place(client.settled, q) > 0
        /\ Place(client.settled, q) < Place(client.settled, p)
        /\ InvokedBefore(p, q)

(***************************************************************************)
(* C21: disposers before imports, callbacks after imports.                 *)
(***************************************************************************)
\* the event e is among the first k - 1 events of the call
HappenedBefore(e, k) == \E j \in 1..(k - 1) : fetch.events[j] = e

\* C21: the import of a module that has a registered dispose handler starts
\* only after the handler has finished, and the accept callbacks of the update
\* run only after every import of the update has settled.
C21_DisposeThenImportThenCallbacks ==
    \A k \in DOMAIN fetch.events :
        LET e == fetch.events[k] IN
        /\ (e[1] = "import" /\ e[2] \in fetch.disposeMap)
                => HappenedBefore(<<"disposed", e[2]>>, k)
        /\ e[1] = "callback" =>
                \A i \in DOMAIN fetch.modulesToUpdate :
                    /\ HappenedBefore(<<"import", fetch.modulesToUpdate[i]>>, k)
                    /\ HappenedBefore(<<"settled", fetch.modulesToUpdate[i]>>, k)

\* a module with a dispose handler was disposed, imported, and a callback ran
C21_Witness ==
    /\ fetch.stage = "invoked"
    /\ \E dep \in fetch.disposeMap :
        /\ Includes(fetch.events, <<"disposed", dep>>)
        /\ Includes(fetch.events, <<"settled", dep>>)
    /\ \E k \in DOMAIN fetch.events : fetch.events[k][1] = "callback"

(***************************************************************************)
(* C22: a changed file that maps to no module.                             *)
(***************************************************************************)
\* the last file event passed the gates of the config and the client
\* directory with a file that getModulesByFile knows no module of
UnmappedFileChanged ==
    hmr.outcome \in {"no-modules", "updateModules"} /\ ~hmr.mapped

Returning(k) == {j \in 1..k : plugins.results[j] # {}}

\* the list of the context behind the first k plugins: the list the last of
\* them that returned one returned, or the modules of the file
ListAfter(k) ==
    IF Returning(k) = {} THEN plugins.mods
    ELSE LET j == CHOOSE j \in Returning(k) : \A i \in Returning(k) : i <= j
         IN  TheValue(plugins.results[j])

\* C23: the hooks run in the order of the plugins; a list a hook returns,
\* narrowed, widened or empty, replaces the list of the context that every
\* later hook is called with and that the update computation uses, and a hook
\* that returns nothing leaves the list as it was.
C23_ReturnedListReplacesContext ==
    plugins.seen # <<>> =>
        /\ \A k \in DOMAIN plugins.seen :
                plugins.seen[k] # {} => plugins.seen[k] = {ListAfter(k - 1)}
        /\ IF ListAfter(Len(plugins.seen)) = <<>>
           THEN hmr.outcome = "no-modules"
           ELSE hmr.outcome = "updateModules"
                /\ hmr.modules = ListAfter(Len(plugins.seen))

\* the first of two hooks widened the list, the second was called with the
\* widened list and narrowed it, and the update computation ran on its list
C23_Witness ==
    /\ Len(plugins.seen) = 2
    /\ plugins.results[1] # {} /\ plugins.results[2] # {}
    /\ Len(TheValue(plugins.results[1])) > Len(plugins.mods)
    /\ plugins.seen[2] = plugins.results[1]
    /\ Len(TheValue(plugins.results[2])) = 1
    /\ hmr.outcome = "updateModules"
    /\ hmr.modules = TheValue(plugins.results[2])

(***************************************************************************)
(* C24: glob importers on file additions and removals.                     *)
(***************************************************************************)
AddedOrRemoved == hmr.outcome = "addUnlink"

\* the entries the registry held at the event whose globs match the file
MatchingImporters ==
    {i \in 1..Len(hmr.registry) : MatchesAny(hmr.file, hmr.registry[i].importGlobs)}

\* C24: after every file addition and every file removal, each module the
\* registry of glob importers held with a pattern that matches the file is
\* among the modules passed to updateModules and its own file was
\* invalidated through onFileChange: no module of that file has a cached
\* transform result
C24_GlobImportersUpdated ==
    AddedOrRemoved =>
        \A i \in MatchingImporters :
            /\ hmr.updated
            /\ hmr.registry[i].module \in Range(hmr.modules)
            /\ hmr.registry[i].key \in Range(hmr.invalidated)
            /\ \A n \in Range(fileToModulesMap[hmr.registry[i].key]) :
                   nodes[n].transformResult = None

(***************************************************************************)
(* C25: invalidateAll.                                                     *)
(***************************************************************************)
\* the nodes an index of graph G holds
UrlIndexNodes(G) == {G.urlToModuleMap[u] : u \in DOMAIN G.urlToModuleMap}
IdIndexNodes(G) == {G.idToModuleMap[id] : id \in DOMAIN G.idToModuleMap}
FileIndexNodes(G) ==
    UNION {Range(G.fileToModulesMap[f]) : f \in DOMAIN G.fileToModulesMap}

\* every node reachable from one of the three indices
AllIndexNodes(G) == UrlIndexNodes(G) \cup IdIndexNodes(G) \cup FileIndexNodes(G)

\* C25: after invalidateAll(), every node reachable from any of the three
\* indices has no cached transformResult, and each index holds the nodes it
\* held before the call
C25_InvalidateAllClearsEveryNode ==
    last.op = "invalidateAll" =>
        /\ \A n \in AllIndexNodes(Graph) : nodes[n].transformResult = None
        /\ UrlIndexNodes(Graph) = UrlIndexNodes(last.G)
        /\ IdIndexNodes(Graph) = IdIndexNodes(last.G)
        /\ FileIndexNodes(Graph) = FileIndexNodes(last.G)

(***************************************************************************)
(* C26: ensureEntryFromUrl under concurrent calls.                         *)
(***************************************************************************)
\* the calls that returned
ReturnedCalls == {i \in 1..Len(ensure.calls) : ensure.calls[i].stage = "returned"}

NormalizedUrl(i) == resolveUrl(ensure.calls[i].rawUrl)[1]

\* the node of url is in the three indices
Registered(url) ==
    /\ url \in DOMAIN urlToModuleMap /\ urlToModuleMap[url] = url
    /\ nodes[url].id # None /\ nodes[url].file # None
    /\ TheValue(nodes[url].id) \in DOMAIN idToModuleMap
    /\ idToModuleMap[TheValue(nodes[url].id)] = url
    /\ TheValue(nodes[url].file) \in DOMAIN fileToModulesMap
    /\ url \in Range(fileToModulesMap[TheValue(nodes[url].file)])

\* C26: a call of ensureEntryFromUrl returns the node of the normalized url
\* when there is one and creates one otherwise, registered in the url, id
\* and file indices when the call returns; whatever the interleaving of the
\* calls, one node at most is created for a url, and the calls whose urls
\* normalize to the same url all return that node
C26_OneNodePerUrl ==
    /\ \A u \in Range(ensure.created) : Creations(ensure.created, u) = 1
    /\ \A i \in ReturnedCalls :
          /\ ensure.calls[i].mod = {<<NormalizedUrl(i), 1>>}
          /\ NormalizedUrl(i) \in DOMAIN urlToModuleMap
          /\ ensure.calls[i].created <=>
                 (/\ ~ensure.calls[i].atCall
                  /\ \A j \in ReturnedCalls :
                         (j # i /\ NormalizedUrl(j) = NormalizedUrl(i))
                             => ~ensure.calls[j].created)
    /\ (ensure.last # 0 /\ ensure.calls[ensure.last].created)
           => Registered(NormalizedUrl(ensure.last))

\* two calls with different raw urls of one normalized url were in flight
\* together and both returned, the later one finding the node of the other
C26_Witness ==
    \E i, j \in ReturnedCalls :
        /\ i # j
        /\ ensure.calls[i].rawUrl # ensure.calls[j].rawUrl
        /\ NormalizedUrl(i) = NormalizedUrl(j)
        /\ ~ensure.calls[i].atCall /\ ~ensure.calls[j].atCall
        /\ ensure.calls[i].created /\ ~ensure.calls[j].created
        /\ ensure.last = j

(***************************************************************************)
(* C27: lastHMRTimestamp.                                                  *)
(***************************************************************************)
\* a step that leaves the timestamps of the nodes as the claim says
TimestampStep ==
    /\ \A n \in DOMAIN nodes' \ DOMAIN nodes : nodes'[n].lastHMRTimestamp = 0
    /\ \A n \in DOMAIN nodes :
          /\ n \in DOMAIN nodes'
          /\ nodes'[n].lastHMRTimestamp >= nodes[n].lastHMRTimestamp
          /\ nodes'[n].lastHMRTimestamp # nodes[n].lastHMRTimestamp
                => (stamps' # stamps \/ nEvents' # nEvents)

\* C27: the lastHMRTimestamp of a node is 0 when the node is created, is
\* changed only by the handling of a file change, an addition, a removal or
\* pruned modules, and never decreases, whatever the interleaving of the
\* handlers
C27_TimestampNeverDecreases == [][TimestampStep]_vars

(***************************************************************************)
(* C28, C29, C30: the runs of the optimizer.                               *)
(***************************************************************************)
Ran == optimizer.run.outcome # "none"

\* the metadata a cache directory holds, if any
MetadataOf(dir) == IF dir = None THEN None ELSE TheValue(dir).metadata

\* the run was made without force on a directory whose metadata has the
\* main hash of the run
ConsistentRun ==
    /\ Ran
    /\ ~optimizer.run.force
    /\ MetadataOf(optimizer.run.before) # None
    /\ TheValue(MetadataOf(optimizer.run.before)).hash = optimizer.run.hash

\* C28: a run of optimizeDeps without force on persisted metadata whose hash
\* is the main hash returns that metadata and has no other effect: the
\* cache directory is as it was, nothing was cleared, scanned, bundled or
\* written
C28_ConsistentHashSkips ==
    ConsistentRun =>
        /\ optimizer.run.outcome = "return"
        /\ optimizer.run.value = TheValue(MetadataOf(optimizer.run.before))
        /\ optimizer.run.effects = <<>>
        /\ optimizer.cacheDir = optimizer.run.before

\* such a run on a directory that holds bundles
C28_Witness ==
    /\ ConsistentRun
    /\ TheValue(optimizer.run.before).bundles # {}
    /\ optimizer.run.outcome = "return"

\* C29: after a run that failed, by the scan, a missing import, a forced
\* include that does not resolve or the bundler, the metadata on disk is
\* the metadata that was there before the run
C29_FailureKeepsMetadata ==
    (Ran /\ optimizer.run.outcome = "throw")
        => MetadataOf(optimizer.cacheDir) = MetadataOf(optimizer.run.before)

\* C30: when the scan reports missing imports, the run throws one error
\* that lists every missing id with its importer, bundles nothing and
\* writes no metadata
C30_MissingImportsFail ==
    (Ran /\ optimizer.run.missing # <<>>) =>
        /\ optimizer.run.outcome = "throw"
        /\ optimizer.run.value.kind = "missing"
        /\ optimizer.run.value.list =
               [i \in 1..Len(optimizer.run.missing) |->
                   <<optimizer.run.missing[i].id, optimizer.run.missing[i].value>>]
        /\ "build" \notin Range(optimizer.run.effects)
        /\ "writeMetadata" \notin Range(optimizer.run.effects)
        /\ MetadataOf(optimizer.cacheDir) = None
        /\ TheValue(optimizer.cacheDir).bundles = {}

\* the scan reported two missing ids, each with its importer
C30_Witness ==
    /\ Ran
    /\ Len(optimizer.run.missing) = 2
    /\ optimizer.run.missing[1].value # optimizer.run.missing[2].value
    /\ optimizer.run.outcome = "throw"

(***************************************************************************)
(* C31: createHotContext.                                                  *)
(***************************************************************************)
CreatedContext == hot.last.op = "createHotContext"

\* the owner of the context a listener was registered through
OwnerOf(l) == hot.contexts[l.ctx].ownerPath

\* the listeners of a list that modules other than ownerPath registered
OfOthers(listeners, ownerPath) ==
    SelectSeq(listeners, LAMBDA l : OwnerOf(l) # ownerPath)

\* C31: a call of createHotContext(ownerPath) leaves ownerPath without accept
\* callbacks and customListenersMap without any listener registered through
\* the previous context of ownerPath, and leaves the callbacks and the
\* listeners of the other modules as they were
C31_ContextReplacesOwnOnly ==
    CreatedContext =>
        /\ \A o \in DOMAIN hot.hotModulesMap :
              hot.hotModulesMap[o] =
                  IF o = hot.last.ownerPath THEN <<>> ELSE hot.last.hotModulesMap[o]
        /\ \A event \in DOMAIN hot.customListenersMap :
              /\ \A i \in 1..Len(hot.customListenersMap[event]) :
                    hot.customListenersMap[event][i].ctx # hot.last.previous
              /\ OfOthers(hot.customListenersMap[event], hot.last.ownerPath)
                    = OfOthers(hot.last.customListenersMap[event],
                               hot.last.ownerPath)

(***************************************************************************)
(* C32: the nodes updateModules invalidates.                               *)
(***************************************************************************)
\* the smallest set of nodes that holds S and, with a node n, every importer
\* of n that does not have n among its acceptedHmrDeps
RECURSIVE InvalidationSet(_, _)
InvalidationSet(ns, S) ==
    LET more == {i \in DOMAIN ns :
                    \E n \in S : /\ i \in Range(ns[n].importers)
                                 /\ n \notin ns[i].acceptedHmrDeps}
    IN IF more \subseteq S THEN S ELSE InvalidationSet(ns, S \cup more)

\* a step that is a file event handled by updateModules
UpdateModulesStep == nEvents' = nEvents + 1 /\ hmr'.outcome = "updateModules"

\* C32: updateModules for the changed modules with timestamp t clears the
\* transformResult and sets lastHMRTimestamp to t of exactly the nodes of
\* the smallest set that holds the changed modules and every importer of a
\* member that does not accept it; every other node is unchanged
C32_InvalidatesExactlyTheClosure ==
    [][UpdateModulesStep =>
          LET S == InvalidationSet(nodes, Range(hmr'.modules))
          IN \A n \in DOMAIN nodes :
                IF n \in S
                THEN /\ nodes'[n].transformResult = None
                     /\ nodes'[n].lastHMRTimestamp = hmr'.timestamp
                ELSE nodes'[n] = nodes[n]]_vars

\* a change of a module with a cached importer that does not accept it, and
\* which was invalidated, and a cached importer that accepts it, and was not
C32_Witness ==
    /\ hmr.outcome = "updateModules"
    /\ \E m \in Range(hmr.modules) : \E i, j \in Range(nodes[m].importers) :
          /\ m \notin nodes[i].acceptedHmrDeps
          /\ i \in hmr.cachedBefore
          /\ nodes[i].transformResult = None
          /\ nodes[i].lastHMRTimestamp = hmr.timestamp
          /\ m \in nodes[j].acceptedHmrDeps
          /\ j \in hmr.cachedBefore
          /\ nodes[j].transformResult # None
          /\ nodes[j].lastHMRTimestamp = 0

(***************************************************************************)
(* C33: what onFileChange changes.                                         *)
(***************************************************************************)
\* the nodes indexed under a file
IndexedUnder(file) ==
    IF file \in DOMAIN fileToModulesMap
    THEN Range(fileToModulesMap[file]) ELSE {}

\* the nodes of S and all their transitive importers
RECURSIVE WithImporters(_, _)
WithImporters(ns, S) ==
    LET more == UNION {Range(ns[n].importers) : n \in S}
    IN IF more \subseteq S THEN S ELSE WithImporters(ns, S \cup more)

\* a step that is a call of onFileChange
OnFileChangeStep == ssr'.events = ssr.events + 1

\* C33: onFileChange(file) clears the transformResult of exactly the nodes
\* indexed under file and the ssrModule of those nodes and of all their
\* transitive importers; the transformResult of every other node, the edges,
\* the indices and every lastHMRTimestamp are unchanged, and for a file
\* with no nodes nothing changes
C33_OnFileChangeFrame ==
    [][OnFileChangeStep =>
          LET mods == IndexedUnder(ssr'.file)
          IN /\ \A n \in DOMAIN nodes :
                   /\ nodes'[n].transformResult =
                         IF n \in mods THEN None ELSE nodes[n].transformResult
                   /\ nodes'[n].importers = nodes[n].importers
                   /\ nodes'[n].importedModules = nodes[n].importedModules
                   /\ nodes'[n].acceptedHmrDeps = nodes[n].acceptedHmrDeps
                   /\ nodes'[n].lastHMRTimestamp = nodes[n].lastHMRTimestamp
             /\ DOMAIN nodes' = DOMAIN nodes
             /\ ssr'.cache = ssr.cache \ WithImporters(nodes, mods)
             /\ UNCHANGED <<urlToModuleMap, idToModuleMap, fileToModulesMap>>
             /\ mods = {} => UNCHANGED nodes /\ ssr'.cache = ssr.cache]_vars

\* onFileChange was called for a file with a cached node, and is over: an
\* importer of an importer of the node has lost its ssrModule and kept its
\* transformResult, a node that imports none of them has kept its ssrModule,
\* and some node has a lastHMRTimestamp that is not 0
C33_Witness ==
    /\ ssr.events > 0
    /\ \E m \in IndexedUnder(ssr.file) :
       \E i \in Range(nodes[m].importers) :
       \E j \in Range(nodes[i].importers) :
          /\ j \notin IndexedUnder(ssr.file) \cup {i}
          /\ i \notin IndexedUnder(ssr.file)
          /\ nodes[m].transformResult = None
          /\ nodes[j].transformResult # None
          /\ ssr.cache \cap {m, i, j} = {}
    /\ \E n \in DOMAIN nodes : nodes[n].lastHMRTimestamp # 0

\* onFileChange was called for a file with no node, while a node had its
\* ssrModule and another its transformResult
C33_WitnessNoNodes ==
    /\ ssr.events > 0
    /\ IndexedUnder(ssr.file) = {}
    /\ ssr.cache # {}
    /\ Cached(nodes) # {}

(***************************************************************************)
(* C34: a transform request whose load gives no code.                      *)
(***************************************************************************)
\* a step in which the load of a request ends without code: no load result
\* and no file read, and nothing threw
LoadsNoCode ==
    lastCall'.op = "load" /\ ~lastCall'.loaded /\ ~lastCall'.failed

\* the graph, the watcher and the cached results are as they were
NothingRecorded == UNCHANGED <<graphVars, watcher>>

BothCompleted ==
    /\ Len(info.calls) = 2
    /\ info.calls[1].mod = info.calls[2].mod
    /\ info.calls[1].items = <<>> /\ info.calls[1].pc = "done"
    /\ info.calls[2].items = <<>> /\ info.calls[2].pc = "done"

\* C35: once two calls of updateModuleInfo for the same module that
\* interleave at their awaits of ensureEntryFromUrl have both completed,
\* b is in a.importedModules if and only if a is in b.importers
C35_InterleavedCallsKeepEdges ==
    BothCompleted =>
        \A a, b \in DOMAIN nodes :
            b \in nodes[a].importedModules <=> a \in Range(nodes[b].importers)

(***************************************************************************)
(* C36: the computations in flight for one module.                         *)
(***************************************************************************)
\* the computation of the request i has not settled
InFlight(i) == requests[i].pc \notin {"settled", "done"}

\* the url of the node the request i computes the result of
NodeUrlOf(i) == resolveUrl(requests[i].url)[1]

\* C36: no two transform computations with the same options are in flight
\* for one module node, also when the urls requested differ in their t=
\* query only
C36_OneComputationPerNode ==
    \A i, j \in DOMAIN requests :
        (/\ i # j
         /\ InFlight(i) /\ InFlight(j)
         /\ requests[i].options = requests[j].options)
            => NodeUrlOf(i) # NodeUrlOf(j)

(***************************************************************************)
(* C37: the entries of an update payload.                                  *)
(***************************************************************************)
\* C37: no update payload sent has two entries with the same path and the
\* same acceptedPath
C37_UpdateEntriesDistinct ==
    \A k \in 1..Len(ws) :
        ws[k].type = "update" =>
            \A i, j \in 1..Len(ws[k].updates) :
                (/\ ws[k].updates[i].path = ws[k].updates[j].path
                 /\ ws[k].updates[i].acceptedPath = ws[k].updates[j].acceptedPath)
                    => i = j

(***************************************************************************)
(* C38: the boundary walk and the order of the importers.                  *)
(***************************************************************************)
\* C38: the walk from a module gives the same outcome for every order in
\* which the importers of the nodes are iterated: a dead end in both orders
\* or in neither, and without a dead end the same set of pairs (boundary,
\* acceptedVia)
C38_WalkIgnoresImporterOrder ==
    last.op = "propagateUpdate" =>
        /\ last.result.hasDeadEnd = last.reversed.hasDeadEnd
        /\ ~last.result.hasDeadEnd =>
              Range(last.result.boundaries) = Range(last.reversed.boundaries)

(***************************************************************************)
(* C39: every node created is found again by its id.                       *)
(***************************************************************************)
\* ModuleGraph.getModuleById(id): this.idToModuleMap.get(
\* removeTimestampQuery(id)).  An id is the file and the ?direct query:
\* resolveUrl strips the t= query before it resolves, so that an id of a
\* node has none for removeTimestampQuery to remove
getModuleById(id) ==
    IF id \in DOMAIN idToModuleMap THEN Some(idToModuleMap[id]) ELSE None

\* C39: after any calls of ensureEntryFromUrl, every node created is the
\* node getModuleById returns for its id
C39_NodeFoundById ==
    \A n \in DOMAIN nodes :
        nodes[n].id # None => getModuleById(TheValue(nodes[n].id)) = Some(n)

(***************************************************************************)
(* C40: the spans of the deps the lexer records.                           *)
(***************************************************************************)
\* code.slice(from, to)
slice(code, from, to) == SubSeq(code, from + 1, to)

\* C40: for every dep {url, start, end} the lexer records, the code between
\* start + 1 and end - 1 is the url, and start is not before the index the
\* lexer was started at
C40_SpanOfDepIsItsUrl ==
    \A o \in lexer.out : \A k \in 1..Len(o.urls) :
        /\ slice(lexer.code, o.urls[k].start + 1, o.urls[k].end - 1)
              = o.urls[k].url
        /\ o.urls[k].start >= lexer.start

\* the lexer, started behind the first character of the code, has recorded
\* two deps, the first of them not empty
C40_Witness ==
    /\ lexer.start > 0
    /\ \E o \in lexer.out :
          /\ Len(o.urls) = 2
          /\ o.urls[1].url # <<>>
          /\ o.urls[1].start >= lexer.start
          /\ o.urls[2].start > o.urls[1].end

====
